---------------------------- MODULE Spec2Model ----------------------------
(***************************************************************************)
(* State-machine model of umdu-haos-updater: the update orchestrator       *)
(* (app/orchestrator.py), the bundle download pipeline (app/updater.py),   *)
(* the install-command handler (app/main.py) and the MQTT service          *)
(* (app/mqtt_service.py).                                                  *)
(*                                                                         *)
(* Python strings are sequences of character codes, so that comparison,    *)
(* lower-casing and version parsing are computed and not assumed.          *)
(***************************************************************************)
EXTENDS Integers, Sequences, FiniteSets, TLC

\* ------------------------------------------------------------------ bounds
\* Number of worker threads that may each run one handle_install_cmd.
MaxWorkers == 2
\* Number of auto_cycle_once runs of the main loop thread.
MaxCycles == 1
\* Number of download_update calls of the sequential download specification.
MaxDownloads == 2
\* Number of is_ready() observations recorded by the transport specification.
MaxObservers == 2
\* Number of iterations of the main loop in the main-loop specification.
MaxTicks == 5
\* Largest attempt number the reconnection delay is computed for.
MaxAttempt == 9
\* Number of direct publish_state() calls of the publish specification.
MaxPublishes == 3
\* Number of direct check_for_update_and_download calls of the check specification.
MaxChecks == 2
\* Number of direct fetch_available_update calls of the fetch specification.
MaxFetches == 5
\* Number of iterations of the main loop in the shutdown specification.
MaxMainTicks == 2
\* Number of messages delivered to _on_message in the command specification.
MaxMessages == 2

\* The connect callbacks followed in one run.
MaxConnects == 3
\* Number of direct handle_mqtt_reconnection calls of the reconnection
\* specification.
MaxReconnections == 2
\* Number of started services handed to set_mqtt_service in the reconnection
\* specification, the first one included.
MaxServices == 2
\* Number of direct calls of the service's public methods in the transport
\* specification.
MaxTransportCalls == 3
\* Largest field of the version strings compared by the version specification.
MaxPart == 10

\* ------------------------------------------------------------- Python values
\* Python's None, where a string may be absent: no string holds a negative code.
None == <<-1>>

\* str.isspace() on one character code: the whitespace of str.strip() and of
\* the pattern's \s , the ASCII ones and NEL, NBSP, the Ogham and the Mongolian
\* era's space marks, the typographic spaces, the line and paragraph
\* separators and the ideographic space.
IsSpace(c) ==
    \/ c \in {9, 10, 11, 12, 13, 28, 29, 30, 31, 32, 133, 160, 5760}
    \/ c >= 8192 /\ c <= 8202
    \/ c \in {8232, 8233, 8239, 8287, 12288}

\* str.strip(): the string without its leading and trailing whitespace.
RECURSIVE Strip(_)
Strip(s) ==
    IF s = <<>> THEN s
    ELSE IF IsSpace(Head(s)) THEN Strip(Tail(s))
    ELSE IF IsSpace(s[Len(s)]) THEN Strip(SubSeq(s, 1, Len(s) - 1))
    ELSE s

\* str.lower() on one character: the ASCII and Latin-1 capitals, the Kelvin
\* sign (to "k") and the dotted capital I (to "i" and a combining dot); the
\* dotless i and the long s are lower-case already.
LowerChar(c) ==
    IF c >= 65 /\ c <= 90 THEN <<c + 32>>
    ELSE IF c >= 192 /\ c <= 222 /\ c # 215 THEN <<c + 32>>
    ELSE IF c = 8490 THEN <<107>>
    ELSE IF c = 304 THEN <<105, 775>>
    ELSE <<c>>

\* str.lower().
RECURSIVE Lower(_)
Lower(s) == IF s = <<>> THEN <<>> ELSE LowerChar(Head(s)) \o Lower(Tail(s))

\* re.IGNORECASE on one character: the lower-case ASCII letter that the
\* character matches (the capitals, the dotted capital I and the dotless i
\* for "i", the long s for "s", the Kelvin sign for "k"), or the character.
FoldChar(c) ==
    IF c >= 65 /\ c <= 90 THEN c + 32
    ELSE IF c \in {304, 305} THEN 105
    ELSE IF c = 383 THEN 115
    ELSE IF c = 8490 THEN 107
    ELSE c

\* Python's  a > b  on strings: lexicographic by code point.
RECURSIVE StrGreater(_, _)
StrGreater(a, b) ==
    IF a = <<>> THEN FALSE
    ELSE IF b = <<>> THEN TRUE
    ELSE IF Head(a) # Head(b) THEN Head(a) > Head(b)
    ELSE StrGreater(Tail(a), Tail(b))

IsDigit(c) == c >= 48 /\ c <= 57

\* The dot-separated fields of a string, as strings.
RECURSIVE SplitDots(_)
SplitDots(s) ==
    IF \A i \in 1..Len(s) : s[i] # 46 THEN <<s>>
    ELSE LET k == CHOOSE i \in 1..Len(s) :
                     s[i] = 46 /\ \A j \in 1..(i - 1) : s[j] # 46
         IN  <<SubSeq(s, 1, k - 1)>> \o SplitDots(SubSeq(s, k + 1, Len(s)))

\* int() of a string of digits.
RECURSIVE DigitsValue(_)
DigitsValue(s) ==
    IF s = <<>> THEN 0
    ELSE DigitsValue(SubSeq(s, 1, Len(s) - 1)) * 10 + (s[Len(s)] - 48)

\* The release tuple of a dotted string of decimal fields.
Release(s) == LET f == SplitDots(s) IN [i \in 1..Len(f) |-> DigitsValue(f[i])]

\* Tuple comparison  a > b  of two releases; packaging strips the trailing
\* zeros of both, which is the comparison with the shorter one padded.
RECURSIVE ReleaseGreater(_, _)
ReleaseGreater(a, b) ==
    IF a = <<>> /\ b = <<>> THEN FALSE
    ELSE LET x == IF a = <<>> THEN 0 ELSE Head(a)
             y == IF b = <<>> THEN 0 ELSE Head(b)
         IN  IF x # y THEN x > y
             ELSE ReleaseGreater(IF a = <<>> THEN a ELSE Tail(a),
                                 IF b = <<>> THEN b ELSE Tail(b))

\* Whether the word w stands at position i of s.
HasAt(s, i, w) == i + Len(w) - 1 <= Len(s) /\ SubSeq(s, i, i + Len(w) - 1) = w

\* The position after the digits that start at position i.
DigitsEnd(s, i) ==
    CHOOSE j \in i..(Len(s) + 1) :
        /\ \A k \in i..(j - 1) : IsDigit(s[k])
        /\ j = Len(s) + 1 \/ ~IsDigit(s[j])

\* [a-z0-9] of the local version segment, on the case-folded text.
IsAlnum(c) == IsDigit(c) \/ (c >= 97 /\ c <= 122)

\* The position after the letters and digits that start at position i.
AlnumEnd(s, i) ==
    CHOOSE j \in i..(Len(s) + 1) :
        /\ \A k \in i..(j - 1) : IsAlnum(s[k])
        /\ j = Len(s) + 1 \/ ~IsAlnum(s[j])

\* [-_\.] of packaging's VERSION_PATTERN.
IsSep(c) == c \in {45, 95, 46}

\* [-_\.]? : the position after an optional separator at position i.
SkipSep(s, i) == IF i <= Len(s) /\ IsSep(s[i]) THEN i + 1 ELSE i

\* The first word of an alternation that stands at position i, or the empty
\* string when none does.
FirstWord(s, i, words) ==
    LET m == {k \in 1..Len(words) : HasAt(s, i, words[k])}
    IN  IF m = {} THEN <<>>
        ELSE words[CHOOSE k \in m : \A j \in m : k <= j]

\* alpha|a|beta|b|preview|pre|c|rc , post|rev|r  and  dev , in the order of
\* the pattern.
PreWords == << <<97, 108, 112, 104, 97>>, <<97>>, <<98, 101, 116, 97>>, <<98>>,
               <<112, 114, 101, 118, 105, 101, 119>>, <<112, 114, 101>>, <<99>>,
               <<114, 99>> >>
PostWords == << <<112, 111, 115, 116>>, <<114, 101, 118>>, <<114>> >>
DevWords == << <<100, 101, 118>> >>

\* packaging's _parse_letter_version on the letter: lower-cased, and the
\* spellings alpha, beta, c, pre, preview, rev and r replaced by a, b, rc and
\* post; a letter that is none of these once lower-cased is kept.
parse_letter_version(letter) ==
    LET l == Lower(letter)
    IN  IF l = <<97, 108, 112, 104, 97>> THEN <<97>>
        ELSE IF l = <<98, 101, 116, 97>> THEN <<98>>
        ELSE IF l \in {<<99>>, <<112, 114, 101>>, <<112, 114, 101, 118, 105, 101, 119>>}
             THEN <<114, 99>>
        ELSE IF l \in {<<114, 101, 118>>, <<114>>} THEN <<112, 111, 115, 116>>
        ELSE l

\* [0-9]+(?:\.[0-9]+)* : the position after the release that starts at i.
RECURSIVE ReleaseEnd(_, _)
ReleaseEnd(s, i) ==
    LET j == DigitsEnd(s, i)
    IN  IF j + 1 <= Len(s) /\ s[j] = 46 /\ IsDigit(s[j + 1])
        THEN ReleaseEnd(s, j + 1)
        ELSE j

\* [a-z0-9]+(?:[-_\.][a-z0-9]+)* : the position after the local version
\* that starts at i.
RECURSIVE LocalEnd(_, _)
LocalEnd(s, i) ==
    LET j == AlnumEnd(s, i)
    IN  IF j + 1 <= Len(s) /\ IsSep(s[j]) /\ IsAlnum(s[j + 1])
        THEN LocalEnd(s, j + 1)
        ELSE j

\* packaging's _parse_local_version: the parts of the local version (s is
\* its case-folded text, raw the text as given), a number as <<1, n>> and a
\* word as <<0>> and its lower-cased letters, so that the comparison by code
\* point puts every number above every word.
RECURSIVE LocalParts(_, _)
LocalParts(s, raw) ==
    LET j == AlnumEnd(s, 1)
        w == SubSeq(raw, 1, j - 1)
        part == IF \A k \in 1..Len(w) : IsDigit(w[k])
                THEN <<1, DigitsValue(w)>> ELSE <<0>> \o Lower(w)
    IN  IF j > Len(s) THEN <<part>>
        ELSE <<part>> \o LocalParts(SubSeq(s, j + 1, Len(s)),
                                    SubSeq(raw, j + 1, Len(raw)))

\* One optional tag of the pattern at position p, with its separators and
\* its number: a separator before the tag belongs to the tag only when the
\* tag follows, a separator after it always (the greedy match).  The word is
\* matched on the case-folded text s and its letter read from the text raw.
ParseTag(s, raw, p, words) ==
    LET a1 == SkipSep(s, p)
        l == FirstWord(s, a1, words)
        a2 == SkipSep(s, a1 + Len(l))
        a3 == DigitsEnd(s, a2)
    IN  [has |-> l # <<>>,
         l |-> parse_letter_version(SubSeq(raw, a1, a1 + Len(l) - 1)),
         p |-> IF l # <<>> THEN a3 ELSE p,
         n |-> IF l # <<>> /\ a3 > a2 THEN DigitsValue(SubSeq(s, a2, a3 - 1)) ELSE 0]

\* The start of the match: the text between the leading and the trailing
\* whitespace (raw), the same text case-folded (s), and the position after
\* the optional "v".
ParseStart(str) ==
    LET raw == Strip(str)
        s == [i \in 1..Len(raw) |-> FoldChar(raw[i])]
    IN  [s |-> s, raw |-> raw, p |-> IF HasAt(s, 1, <<118>>) THEN 2 ELSE 1]

\* (?:(?P<epoch>[0-9]+)!)?
ParseEpoch(r) ==
    LET e1 == DigitsEnd(r.s, r.p)
        has_epoch == e1 > r.p /\ e1 <= Len(r.s) /\ r.s[e1] = 33
    IN  [p |-> IF has_epoch THEN e1 + 1 ELSE r.p,
         epoch |-> IF has_epoch THEN DigitsValue(SubSeq(r.s, r.p, e1 - 1)) ELSE 0] @@ r

\* (?P<release>[0-9]+(?:\.[0-9]+)*)
ParseRelease(r) ==
    LET has_release == r.p <= Len(r.s) /\ IsDigit(r.s[r.p])
        p2 == IF has_release THEN ReleaseEnd(r.s, r.p) ELSE r.p
    IN  [p |-> p2, has_release |-> has_release,
         release |-> IF has_release THEN Release(SubSeq(r.s, r.p, p2 - 1)) ELSE <<>>] @@ r

\* (?P<pre>...)? : the pre-release tag
ParsePre(r) ==
    LET t == ParseTag(r.s, r.raw, r.p, PreWords)
    IN  [p |-> t.p, has_pre |-> t.has, pre_l |-> t.l, pre_n |-> t.n] @@ r

\* (?P<post>...)? : the post-release, "-N" or a tag
ParsePost(r) ==
    LET b0 == DigitsEnd(r.s, r.p + 1)
        post_dash == r.p <= Len(r.s) /\ r.s[r.p] = 45 /\ b0 > r.p + 1
        t == ParseTag(r.s, r.raw, r.p, PostWords)
    IN  [p |-> IF post_dash THEN b0 ELSE t.p,
         has_post |-> post_dash \/ t.has,
         post_l |-> IF post_dash THEN <<112, 111, 115, 116>> ELSE t.l,
         post_n |-> IF post_dash THEN DigitsValue(SubSeq(r.s, r.p + 1, b0 - 1))
                    ELSE t.n] @@ r

\* (?P<dev>...)? : the development release tag
ParseDev(r) ==
    LET t == ParseTag(r.s, r.raw, r.p, DevWords)
    IN  [p |-> t.p, has_dev |-> t.has, dev_n |-> t.n] @@ r

\* (?:\+(?P<local>...))? : the local version
ParseLocal(r) ==
    LET has_local == r.p + 1 <= Len(r.s) /\ r.s[r.p] = 43 /\ IsAlnum(r.s[r.p + 1])
        p6 == IF has_local THEN LocalEnd(r.s, r.p + 1) ELSE r.p
    IN  [p |-> p6,
         local |-> IF has_local THEN LocalParts(SubSeq(r.s, r.p + 1, p6 - 1),
                                                SubSeq(r.raw, r.p + 1, p6 - 1))
                   ELSE <<>>] @@ r

\* Whether the pattern matched to the end of the text (ok), and the fields
\* of the comparison key (_cmpkey).
cmpkey(r) ==
    [ok |-> r.has_release /\ r.p = Len(r.s) + 1,
     epoch |-> r.epoch,
     release |-> r.release,
     \* _pre: the pair (letter, number), the letter closed by a 0 so that
     \* the comparison by code point is the comparison of the pairs; below
     \* every pair when only a development tag is there, above every pair
     \* when there is none
     pre |-> IF r.has_pre THEN <<1>> \o r.pre_l \o <<0, r.pre_n>>
             ELSE IF ~r.has_post /\ r.has_dev THEN <<0>>
             ELSE <<2>>,
     \* _post: the pair (letter, number); below every pair when there is none
     post |-> IF r.has_post THEN <<1>> \o r.post_l \o <<0, r.post_n>> ELSE <<0>>,
     \* _dev: above every number when there is none
     dev |-> IF r.has_dev THEN <<0, r.dev_n>> ELSE <<1, 0>>,
     \* _local: below every local version when there is none
     local |-> r.local]

\* The next part of the pattern, matched once on the result of the parts
\* before it (held as the one element of a set).
Then(S, Parse(_)) == {Parse(r) : r \in S}

\* packaging.version.Version(str): the pattern's parts matched in order.
Version(str) ==
    CHOOSE key \in
        Then(Then(Then(Then(Then(Then(Then({ParseStart(str)},
            ParseEpoch), ParseRelease), ParsePre), ParsePost), ParseDev),
            ParseLocal), cmpkey) : TRUE

\* Tuple comparison  a > b  of two local versions, part by part.
RECURSIVE LocalGreater(_, _)
LocalGreater(a, b) ==
    IF a = <<>> THEN FALSE
    ELSE IF b = <<>> THEN TRUE
    ELSE IF Head(a) # Head(b) THEN StrGreater(Head(a), Head(b))
    ELSE LocalGreater(Tail(a), Tail(b))

\* Version.__gt__: the comparison of the keys
\* (epoch, release, pre, post, dev, local), field by field.
VersionGreater(a, b) ==
    IF a.epoch # b.epoch THEN a.epoch > b.epoch
    ELSE IF ReleaseGreater(a.release, b.release) THEN TRUE
    ELSE IF ReleaseGreater(b.release, a.release) THEN FALSE
    ELSE IF a.pre # b.pre THEN StrGreater(a.pre, b.pre)
    ELSE IF a.post # b.post THEN StrGreater(a.post, b.post)
    ELSE IF a.dev # b.dev THEN StrGreater(a.dev, b.dev)
    ELSE LocalGreater(a.local, b.local)

\* Whether packaging.version.Version(s) parses (no InvalidVersion).
VersionParses(s) == Version(s).ok

\* The string comparison alone, without the version parse.
is_newer_lexicographic(ver_a, ver_b) == ver_a # ver_b /\ StrGreater(ver_a, ver_b)

\* updater.is_newer
is_newer(ver_a, ver_b) ==
    IF VersionParses(ver_a) /\ VersionParses(ver_b)
    THEN VersionGreater(Version(ver_a), Version(ver_b))
    ELSE ver_a # ver_b /\ StrGreater(ver_a, ver_b)

\* "15.2.0", "15.3.0" and "unknown" as character codes.
V_15_2_0 == <<49, 53, 46, 50, 46, 48>>
V_15_3_0 == <<49, 53, 46, 51, 46, 48>>
V_unknown == <<117, 110, 107, 110, 111, 119, 110>>


\* -------------------------------------------------------------- bundle store
\* UpdateInfo.filename: "haos_umdu-k1-" + version + ".raucb".
BundlePrefix == <<104, 97, 111, 115, 95, 117, 109, 100, 117, 45, 107, 49, 45>>
BundleSuffix == <<46, 114, 97, 117, 99, 98>>
Filename(version) == BundlePrefix \o version \o BundleSuffix

\* SHARE_DIR.glob("haos_umdu-k1-*.raucb")
IsBundleName(name) ==
    /\ Len(name) >= Len(BundlePrefix) + Len(BundleSuffix)
    /\ SubSeq(name, 1, Len(BundlePrefix)) = BundlePrefix
    /\ SubSeq(name, Len(name) - Len(BundleSuffix) + 1, Len(name)) = BundleSuffix

\* File contents are byte strings over {0, 1} of length at most two.
Contents == {<<>>, <<0>>, <<1>>, <<0, 0>>, <<0, 1>>, <<1, 0>>, <<1, 1>>}

\* The bundle the release server holds for a version, and a damaged copy of it.
ServerContent(version) == IF version = V_15_3_0 THEN <<0, 1>> ELSE <<1, 0>>
DamagedContent(version) == <<1, 1>>

\* A byte string as a number (injective on Contents).
RECURSIVE ContentNumber(_)
ContentNumber(c) ==
    IF c = <<>> THEN 1 ELSE ContentNumber(SubSeq(c, 1, Len(c) - 1)) * 2 + c[Len(c)]

\* One lower-case hexadecimal digit, as hexdigest() prints it.
HexChar(n) == IF n < 10 THEN 48 + n ELSE 97 + (n - 10)

\* hashlib.sha256(...).hexdigest(), abstracted to an injective two-digit digest.
HexDigest(c) ==
    LET n == (ContentNumber(c) * 11 + 160) % 256
    IN  <<HexChar(n \div 16), HexChar(n % 16)>>

\* str.upper() of a digest, as a feed may print it.
UpperDigest(d) == [i \in 1..Len(d) |-> IF d[i] >= 97 /\ d[i] <= 122 THEN d[i] - 32 ELSE d[i]]

\* A verification that compares the digest with the expected one as printed.
verify_sha256_as_printed(content, expected) == HexDigest(content) = expected

\* updater._verify_sha256 on the content of the file at the path.
verify_sha256(content, expected) == Lower(HexDigest(content)) = Lower(expected)

\* Python truthiness of an optional string.
Truthy(s) == s # None /\ s # <<>>

\* Path.unlink(missing_ok=True)
Unlink(files, name) == [n \in (DOMAIN files) \ {name} |-> files[n]]

\* open(path, "wb") and the bytes written so far.
WriteFile(files, name, content) ==
    [n \in (DOMAIN files) \cup {name} |-> IF n = name THEN content ELSE files[n]]

\* updater.download_update, lines 99-102: every other cached bundle is removed.
CleanOldBundles(files, name) ==
    [n \in {m \in DOMAIN files : ~IsBundleName(m) \/ m = name} |-> files[n]]

\* The bundle files of the store directory.
BundleFiles(files) == {n \in DOMAIN files : IsBundleName(n)}


\* ---------------------------------------------------------------------- state
VARIABLES
    \* AddonConfig.auto_update
    auto_update,
    \* how the threads are scheduled in this run: "concurrent" or "sequential"
    sched,
    \* the collaborators that may fail in this run, among "supervisor", "feed",
    \* "server" and "installer"
    faults,
    \* what versions.json holds: [version, sha256]
    feed,
    \* the files of SHARE_DIR: name -> content
    store,
    \* UpdateOrchestrator._in_progress, ._latest_version, ._mqtt_service (set or not)
    in_progress, latest_version, mqtt_service,
    \* MqttService._connected, ._update_entity_active, ._initial_versions
    connected, update_entity_active, initial_versions,
    \* whether the migration marker file of _maybe_migrate_discovery exists
    marker,
    \* per thread: the position in the code and the locals
    pc, th,
    \* the network thread of the MQTT client: the callback it is in
    cb,
    \* observations: what reached the MQTT client, what the collaborators saw
    last_state, last_avail, last_disc, state_after_deact, install_calls,
    net_requests, cycles, downloads, obs,
    \* the locals of main.main's loop: mqtt_retry_count, mqtt_init_grace, the
    \* position in the iteration, and what the loop has been seen to do
    loop,
    \* the response of the metadata endpoint to a direct fetch_available_update call
    doc,
    \* a direct is_newer(ver_a, ver_b) call: the arguments and what it returned
    cmp,
    \* the last message _on_message was handed, and what it set off
    msg

vars == <<auto_update, sched, faults, feed, store, in_progress, latest_version, mqtt_service,
          connected, update_entity_active, initial_versions, marker, pc, th, cb,
          last_state, last_avail, last_disc, state_after_deact, install_calls,
          net_requests, cycles, downloads, obs, loop, doc, cmp, msg>>

\* The state of the main loop and of the direct calls, which the orchestrator,
\* the updater and the MQTT callbacks leave alone.
\* The arguments of the direct calls of the updater's functions.
direct_vars == <<doc, cmp, msg>>

aux_vars == <<loop, doc, cmp, msg>>

config_vars == <<auto_update, sched, faults, feed>>

\* The collaborators, and a run in which none of them fails.
Collaborators == {"supervisor", "feed", "server", "installer"}
healthy == faults = {}
mqtt_vars == <<connected, update_entity_active, initial_versions>>
client_vars == <<last_state, last_avail, last_disc, state_after_deact>>

\* The main loop's executor thread is 0; the install-command workers are 1..MaxWorkers.
AutoThread == 0
Workers == 1..MaxWorkers
Threads == {AutoThread} \cup Workers

\* A thread that is not inside a call.
AtRest(t) == pc[t] \in {"idle", "done", "raised"}

\* The threads of a sequential run: the main loop's thread and one worker.
SeqThreads == {AutoThread, 1}

\* Whether the scheduler lets thread t take a step: always in a concurrent run;
\* in a sequential run one call at a time, each awaited before the next.
Runnable(t) ==
    \/ sched = "concurrent"
    \/ t \in SeqThreads /\ \A u \in Threads \ {t} : AtRest(u)

\* supervisor_api.get_current_haos_version: the version installed, which an
\* install does not change before the reboot.
InstalledVersion == V_15_2_0

\* What one get_current_haos_version() call can do: return the version, return
\* nothing (a null field), or raise NetworkError / SupervisorError.
CurrentOutcomes == IF "supervisor" \notin faults THEN {"ok"} ELSE {"ok", "none", "raise"}

\* What one fetch_available_update() call can do: return the descriptor, raise
\* NetworkError (a requests error), or raise DownloadError (any other error,
\* updater._handle_request_error line 44).
FetchOutcomes == IF "feed" \notin faults THEN {"ok"} ELSE {"ok", "NetworkError", "DownloadError"}

\* What install_bundle / install_if_ready can do, given whether the bundle
\* file existed when install_bundle was entered (found): raise InstallError
\* when it did not (rauc_installer.py lines 19-20); otherwise succeed, raise
\* InstallError, or raise something else (rauc_installer.py line 34,
\* orchestrator.py line 111).
InstallOutcomes(found) ==
    IF ~found THEN {"InstallError"}
    ELSE IF "installer" \notin faults THEN {"ok"}
    ELSE {"ok", "InstallError", "unexpected"}

\* The state payload of mqtt_service.publish_update_state.
StatePayload(installed, latest, progress) ==
    [installed_version |-> installed, latest_version |-> latest, in_progress |-> progress]

\* No state message.
NoState == [installed_version |-> None, latest_version |-> None, in_progress |-> FALSE]

\* MqttService.discovery_enabled: main.py builds the service with discovery=True.
discovery_enabled == TRUE

\* No message on a topic yet.
NoMessage == [payload |-> NoState, retain |-> FALSE, sent |-> FALSE]

\* The MQTT service and what its client was handed, as one value the
\* methods below transform.
Mq == [connected |-> connected, active |-> update_entity_active,
       initial_versions |-> initial_versions,
       last_state |-> last_state, last_avail |-> last_avail,
       last_disc |-> last_disc, state_after_deact |-> state_after_deact]

SetMq(m) ==
    /\ connected' = m.connected
    /\ update_entity_active' = m.active
    /\ initial_versions' = m.initial_versions
    /\ last_state' = m.last_state
    /\ last_avail' = m.last_avail
    /\ last_disc' = m.last_disc
    /\ state_after_deact' = m.state_after_deact

\* MqttService.is_ready
is_ready(m) == discovery_enabled /\ m.connected

\* MqttService._publish on the state topic: nothing is sent when not connected.
publish_state_topic(m, payload, retain) ==
    IF ~m.connected THEN m
    ELSE [m EXCEPT !.last_state = [payload |-> payload, retain |-> retain, sent |-> TRUE],
                   !.state_after_deact = @ \/ ~m.active]

\* MqttService._publish on the availability topic (retained).
publish_avail_topic(m, payload) ==
    IF ~m.connected THEN m ELSE [m EXCEPT !.last_avail = payload]

\* MqttService._publish on the discovery topic (retained).
publish_disc_topic(m, payload) ==
    IF ~m.connected THEN m ELSE [m EXCEPT !.last_disc = payload]

\* MqttService.publish_update_state
publish_update_state(m, installed, latest, progress) ==
    IF ~is_ready(m) THEN m
    ELSE publish_state_topic(m, StatePayload(installed, latest, progress), FALSE)

\* MqttService.publish_update_availability
publish_update_availability(m, online) ==
    IF ~is_ready(m) THEN m
    ELSE publish_avail_topic(m, IF online THEN "online" ELSE "offline")

\* A deactivation that sends the offline availability and leaves the entity active.
deactivate_keeps_entity(m) ==
    IF ~discovery_enabled THEN m ELSE publish_avail_topic(m, "offline")

\* MqttService.deactivate_update_entity (guarded by requires_discovery)
deactivate_update_entity(m) ==
    IF ~discovery_enabled THEN m
    ELSE [publish_avail_topic(m, "offline") EXCEPT !.active = FALSE]

\* MqttService._publish_discovery: the discovery config, availability "online",
\* then the retained initial state when initial versions were set.
publish_discovery(m) ==
    IF ~m.active THEN m
    ELSE LET a == publish_update_availability(publish_disc_topic(m, "config"), TRUE)
         IN  IF a.initial_versions.set
             THEN publish_state_topic(a, StatePayload(a.initial_versions.installed,
                                                      a.initial_versions.latest, FALSE), TRUE)
             ELSE a

\* An empty retained payload, which clears the retained message of a topic.
ClearedMessage == [payload |-> NoState, retain |-> TRUE, sent |-> TRUE]

\* MqttService.clear_retained_messages (guarded by requires_discovery): an
\* empty retained payload goes to the client for the state, availability and
\* discovery topics, by client.publish and not by _publish.
clear_retained_messages(m) ==
    IF ~discovery_enabled THEN m
    ELSE [m EXCEPT !.last_state = ClearedMessage, !.last_avail = "empty",
                   !.last_disc = "empty"]

\* MqttService._handle_clear: the "clear" command is honoured while connected.
handle_clear(m) ==
    IF m.connected THEN publish_discovery(clear_retained_messages(m)) ELSE m

\* MqttService.stop, lines 281-284: the offline availability goes to the
\* client while connected with the entity active, and stop waits for the
\* publish; the client is disconnected and its network loop stopped after
\* that (lines 288-292).
stop(m) ==
    IF m.connected /\ discovery_enabled /\ m.active
    THEN [m EXCEPT !.last_avail = "offline"] ELSE m

\* The public methods of MqttService that publish.
PublicMethods == {"publish_update_state", "publish_update_availability",
                  "deactivate_update_entity", "clear_retained_messages", "stop"}

\* Whether a call of the method hands a message to the client's publish:
\* publish_update_state and publish_update_availability when ready (and
\* _publish finds the service connected), deactivate_update_entity when
\* _publish finds it connected, clear_retained_messages always, stop when
\* connected with the entity active.
reaches_client(method, m) ==
    IF method \in {"publish_update_state", "publish_update_availability"}
    THEN is_ready(m) /\ m.connected
    ELSE IF method = "deactivate_update_entity" THEN discovery_enabled /\ m.connected
    ELSE IF method = "clear_retained_messages" THEN discovery_enabled
    ELSE m.connected /\ discovery_enabled /\ m.active

\* Whether the method has a try/except around the client's publish: only
\* stop has one (lines 282-286); _publish has none.
catches_publish_error(method) == method = "stop"

\* The client.publish calls of clear_retained_messages, one per topic of the
\* loop of lines 127-129.
ClearClientCalls == 3

\* clear_retained_messages, lines 123-129, with the client answering or
\* raising at each of its three publish calls (state, availability,
\* discovery, in this order): nothing is caught, so a call that raises ends
\* the loop and leaves the method, the topics before it cleared.
clear_retained_calls(m, outs) ==
    LET a == [m EXCEPT !.last_state = ClearedMessage]
        b == [a EXCEPT !.last_avail = "empty"]
        c == [b EXCEPT !.last_disc = "empty"]
    IN  IF ~discovery_enabled THEN [mq |-> m, exc |-> FALSE]
        ELSE IF outs[1] = "raise" THEN [mq |-> m, exc |-> TRUE]
        ELSE IF outs[2] = "raise" THEN [mq |-> a, exc |-> TRUE]
        ELSE IF outs[3] = "raise" THEN [mq |-> b, exc |-> TRUE]
        ELSE [mq |-> c, exc |-> FALSE]

\* A call of a public method with the client's publish answering or raising
\* (outs, one answer per call the method makes): the service afterwards and
\* whether an exception leaves the method.  A publish that raises sends
\* nothing and ends the method where it stands, except in stop, which goes
\* on to disconnect.
call_method(method, m, online, progress, outs) ==
    IF method = "clear_retained_messages" THEN clear_retained_calls(m, outs)
    ELSE IF outs[1] = "raise" /\ reaches_client(method, m)
    THEN [mq |-> m, exc |-> ~catches_publish_error(method)]
    ELSE [mq |-> IF method = "publish_update_state"
                 THEN publish_update_state(m, InstalledVersion, feed.version, progress)
                 ELSE IF method = "publish_update_availability"
                 THEN publish_update_availability(m, online)
                 ELSE IF method = "deactivate_update_entity"
                 THEN deactivate_update_entity(m)
                 ELSE stop(m),
          exc |-> FALSE]

\* Whether a stop() call waits for its publish (line 284): when the offline
\* availability went to the client and the client answered.
stop_waits(m, outs) == reaches_client("stop", m) /\ outs[1] = "ok"

\* mqtt_service.COMMAND_TOPIC and STATE_TOPIC.
COMMAND_TOPIC == "umdu/haos_updater/cmd"
STATE_TOPIC == "umdu/haos_updater/state"
UPDATE_AVAIL_TOPIC == "umdu/haos_updater/availability"
UPDATE_DISC_TOPIC == "homeassistant/update/umdu_haos_k1/config"

\* "install" and "clear" as character codes.
S_install == <<105, 110, 115, 116, 97, 108, 108>>
S_clear == <<99, 108, 101, 97, 114>>

\* A dispatch that does not look at the topic.
command_of_any_topic(topic, payload) ==
    IF Strip(payload) = S_install THEN "install"
    ELSE IF Strip(payload) = S_clear THEN "clear" ELSE "none"

\* MqttService._on_message and _handle_command: the handler a message
\* selects.  The payload is stripped, messages of other topics and other
\* payloads select none.
command_of(topic, payload) ==
    IF topic # COMMAND_TOPIC THEN "none"
    ELSE IF Strip(payload) = S_install THEN "install"
    ELSE IF Strip(payload) = S_clear THEN "clear"
    ELSE "none"

\* _initial_versions is None until set_initial_versions.
NoVersions == [set |-> FALSE, installed |-> None, latest |-> None]


\* ----------------------------------------------------------- UpdateOrchestrator
\* What a publish_state call handed to publish_update_state.
NoCall == [called |-> FALSE, payload |-> NoState]

\* A publish_state that resolves a missing latest version by a live fetch on
\* every call and never from the cache.
latest_source_refetch(latest, cache) == IF latest # None THEN "argument" ELSE "fetch"

\* UpdateOrchestrator.publish_state, lines 45-60: where the latest version of
\* the payload comes from: the argument, the cache, or a metadata fetch when
\* both are empty.
latest_source(latest, cache) ==
    IF latest # None THEN "argument"
    ELSE IF cache # None THEN "cache"
    ELSE "fetch"

\* What the client's publish can do: hand the message on, or raise.
ClientOutcomes == IF "client" \notin faults THEN {"ok"} ELSE {"ok", "raise"}

\* What the client does with the publish calls one method makes on it, one
\* after the other; only clear_retained_messages makes more than one.
MethodAnswers == [1..ClearClientCalls -> ClientOutcomes]

\* publish_state, lines 66-87: publish_update_state is handed the version
\* looked up, the cache and the flag as they are now; the try block catches
\* what the client's publish raises (caught), and nothing was sent then.
publish_state_send(out, installed, latest, progress, m) ==
    LET fails == out = "raise" /\ reaches_client("publish_update_state", m)
    IN  [mq |-> IF fails THEN m ELSE publish_update_state(m, installed, latest, progress),
         call |-> [called |-> TRUE, payload |-> StatePayload(installed, latest, progress)],
         caught |-> fails]

\* The locals of a thread, and what it has been seen to do.
NoInfo == [version |-> None, sha256 |-> None]
NewThread ==
    [bundle_path |-> None, latest_arg |-> None, info |-> NoInfo,
     auto_download |-> FALSE, with_orch |-> FALSE, direct |-> FALSE, ret |-> None,
     exc |-> "none", success |-> "unset",
     calls |-> 0, deact |-> 0, note_ok |-> 0, note_fail |-> 0,
     pub_before |-> NoCall, pub_after |-> NoCall,
     guard_installing |-> FALSE, requests |-> 0, early |-> FALSE,
     dl_exc |-> "none", before |-> <<>>, pubs |-> <<>>, looks |-> <<>>,
     method |-> "none", skipped |-> FALSE,
     \* the publish_state call under way: who called it, its latest argument,
     \* and the installed version it has looked up
     ps_site |-> "none", ps_latest |-> None, ps_installed |-> None,
     \* the file download_update has open for writing: "none", "open" (the
     \* file of the target path) or "orphan" (a file that was unlinked since),
     \* the bytes written to it, and what the server streams in this call
     fd |-> "none", off |-> 0, stream |-> "none",
     \* of the bytes written, those that have left the writer's buffer for
     \* the file
     flushed |-> 0,
     \* whether install_bundle found the bundle file when it was entered
     found |-> FALSE]

\* Where a thread goes when its top-level call returns: the main loop's thread
\* is free for the next cycle, a worker is finished.
Returned(t) == IF t = AutoThread THEN "idle" ELSE "done"

\* The exceptions check_for_update_and_download catches around download_update
\* (line 149); anything else leaves it.
CaughtByCheck(e) == e \in {"none", "DownloadError"}

\* Where download_update's caller goes on: a direct caller gets the path or the
\* exception; check_for_update_and_download resolves a DownloadError to None.
DlReturn(t, e) ==
    IF th[t].direct THEN (IF e = "none" THEN "done" ELSE "raised")
    ELSE IF CaughtByCheck(e) THEN "cad_ret" ELSE "raised"

\* The return of a publish_state call of thread t (with the locals r) to the
\* place it was called from, having handed call to the service, or the
\* exception of its version lookup leaving it (raised): where the thread
\* goes on and what it keeps.  What the lookup raises leaves run_install and
\* auto_cycle_once; in the finally clause of _download_progress it replaces
\* the exception of the download.
AfterPublish(t, r, call, raised) ==
    LET q == [r EXCEPT !.ps_site = "none", !.ps_latest = None, !.ps_installed = None]
        e == IF raised THEN "SupervisorError" ELSE r.dl_exc
    IN  IF r.ps_site = "direct"
        THEN [pc |-> "idle",
              th |-> [q EXCEPT !.pubs = Append(@, call),
                               !.exc = IF raised THEN "SupervisorError" ELSE "none"]]
        ELSE IF r.ps_site = "dl_exit"
        THEN [pc |-> DlReturn(t, e),
              th |-> [q EXCEPT !.ret = IF e = "none" THEN Filename(r.info.version) ELSE None,
                               !.dl_exc = e,
                               !.exc = IF CaughtByCheck(e) /\ ~r.direct THEN @ ELSE e]]
        ELSE IF raised
        THEN [pc |-> "raised",
              th |-> [q EXCEPT !.exc = "SupervisorError",
                               !.dl_exc = IF r.ps_site = "dl_enter"
                                          THEN "SupervisorError" ELSE @]]
        ELSE IF r.ps_site = "ri_set"
        THEN [pc |-> "ri_call", th |-> [q EXCEPT !.pub_before = call]]
        ELSE IF r.ps_site = "ri_republish"
        THEN [pc |-> Returned(t), th |-> [q EXCEPT !.pub_after = call]]
        ELSE IF r.ps_site = "cycle"
        THEN [pc |-> Returned(t), th |-> [q EXCEPT !.pubs = Append(@, call)]]
        ELSE [pc |-> "dl_request", th |-> q]

\* UpdateOrchestrator.publish_state(latest=latest), lines 38-42, called by
\* thread t from site: without a service it returns at once; with one the
\* thread waits for the version lookup of line 42.
CallPublish(t, r, site, latest) ==
    IF mqtt_service
    THEN [pc |-> "ps_lookup", th |-> [r EXCEPT !.ps_site = site, !.ps_latest = latest]]
    ELSE AfterPublish(t, [r EXCEPT !.ps_site = site], NoCall, FALSE)

\* publish_state, lines 42-87, when the version lookup ends.  The lookup is
\* outside the try block: what it raises leaves publish_state.  With the
\* latest version given, or cached, the cache is set and the state published;
\* with neither the thread waits for the metadata fetch of line 54.
PublishLookup(t) ==
    /\ pc[t] = "ps_lookup"
    /\ Runnable(t)
    /\ \E cur \in CurrentOutcomes, out \in ClientOutcomes :
         LET r == IF th[t].ps_site = "direct"
                  THEN [th[t] EXCEPT !.looks = Append(@, cur)] ELSE th[t]
             inst == IF cur = "ok" THEN InstalledVersion ELSE V_unknown
             src == latest_source(r.ps_latest, latest_version)
             c == IF src = "argument" THEN r.ps_latest ELSE latest_version
             p == publish_state_send(out, inst, c, in_progress, Mq)
             sends == cur # "raise" /\ src # "fetch"
             n == IF cur = "raise" THEN AfterPublish(t, r, NoCall, TRUE)
                  ELSE IF src = "fetch"
                  THEN [pc |-> "ps_fetch", th |-> [r EXCEPT !.ps_installed = inst]]
                  ELSE AfterPublish(t, [r EXCEPT !.method =
                                           IF r.ps_site = "direct"
                                           THEN (IF p.caught THEN "caught" ELSE "none")
                                           ELSE @],
                                    p.call, FALSE)
         IN  /\ pc' = [pc EXCEPT ![t] = n.pc]
             /\ th' = [th EXCEPT ![t] = n.th]
             /\ latest_version' = (IF sends THEN c ELSE latest_version)
             /\ SetMq(IF sends THEN p.mq ELSE Mq)
    /\ UNCHANGED <<config_vars, marker, store, in_progress, mqtt_service, cb, install_calls,
                   net_requests, cycles, downloads, obs, aux_vars>>

\* publish_state, lines 53-87, when the metadata fetch ends: the cache takes
\* the version of the feed, or the installed version when the fetch failed,
\* and the state is published.
PublishFetch(t) ==
    /\ pc[t] = "ps_fetch"
    /\ Runnable(t)
    /\ \E fo \in FetchOutcomes, out \in ClientOutcomes :
         LET r == th[t]
             c == IF fo = "ok" THEN feed.version ELSE r.ps_installed
             p == publish_state_send(out, r.ps_installed, c, in_progress, Mq)
             n == AfterPublish(t, [r EXCEPT !.method =
                                      IF r.ps_site = "direct"
                                      THEN (IF p.caught THEN "caught" ELSE "none")
                                      ELSE @],
                               p.call, FALSE)
         IN  /\ pc' = [pc EXCEPT ![t] = n.pc]
             /\ th' = [th EXCEPT ![t] = n.th]
             /\ latest_version' = c
             /\ SetMq(p.mq)
    /\ UNCHANGED <<config_vars, marker, store, in_progress, mqtt_service, cb, install_calls,
                   net_requests, cycles, downloads, obs, aux_vars>>

\* run_install, lines 152-157: the forced discovery publish and the one-second sleep.
RiStart(t) ==
    /\ pc[t] = "ri_start"
    /\ Runnable(t)
    /\ SetMq(IF mqtt_service THEN publish_discovery(Mq) ELSE Mq)
    /\ pc' = [pc EXCEPT ![t] = "ri_set"]
    /\ UNCHANGED <<config_vars, marker, store, in_progress, latest_version, mqtt_service, th, cb,
                   install_calls, net_requests, cycles, downloads, obs, aux_vars>>

\* run_install, lines 159-160: the flag is set and publish_state called; the
\* thread then waits in publish_state for the version lookup, or, with no
\* service, in the three-second sleep of line 166.
RiSet(t) ==
    /\ pc[t] = "ri_set"
    /\ Runnable(t)
    /\ in_progress' = TRUE
    /\ LET n == CallPublish(t, th[t], "ri_set", th[t].latest_arg)
       IN  /\ pc' = [pc EXCEPT ![t] = n.pc]
           /\ th' = [th EXCEPT ![t] = n.th]
    /\ UNCHANGED <<config_vars, marker, store, latest_version, mqtt_service, mqtt_vars,
                   client_vars, cb, install_calls, net_requests, cycles, downloads, obs,
                   aux_vars>>

\* run_install, lines 166-169: the sleep is over and install_if_ready is
\* entered; install_bundle looks for the bundle file at once
\* (rauc_installer.py line 19).
RiCall(t) ==
    /\ pc[t] = "ri_call"
    /\ Runnable(t)
    /\ pc' = [pc EXCEPT ![t] = "ri_installing"]
    /\ th' = [th EXCEPT ![t].calls = @ + 1,
                        ![t].found = th[t].bundle_path \in DOMAIN store]
    /\ install_calls' = install_calls + 1
    /\ UNCHANGED <<config_vars, marker, store, in_progress, latest_version, mqtt_service,
                   mqtt_vars, client_vars, cb, net_requests, cycles, downloads, obs, aux_vars>>

\* What run_install keeps of the installer's outcome (lines 171-185): the
\* entity deactivated and the success notification sent, or the failure
\* notification of install_if_ready.
Installed(r, success) ==
    [r EXCEPT !.success = IF success THEN "true" ELSE "false",
              !.note_fail = IF success THEN @ ELSE @ + 1,
              !.deact = IF mqtt_service /\ success THEN @ + 1 ELSE @,
              !.note_ok = IF success THEN @ + 1 ELSE @]

\* A run_install that republishes the state after every install, failed or not.
RiFinishBodyAlwaysRepublish(t, out) ==
    IF out = "unexpected"
    THEN /\ pc' = [pc EXCEPT ![t] = "raised"]
         /\ th' = [th EXCEPT ![t].exc = "unexpected"]
         /\ UNCHANGED <<in_progress, mqtt_vars, client_vars>>
    ELSE LET success == (out = "ok")
             n == CallPublish(t, Installed(th[t], success), "ri_republish", th[t].latest_arg)
         IN  /\ in_progress' = FALSE
             /\ SetMq(IF mqtt_service /\ success THEN deactivate_update_entity(Mq) ELSE Mq)
             /\ pc' = [pc EXCEPT ![t] = n.pc]
             /\ th' = [th EXCEPT ![t] = n.th]

\* install_bundle runs and install_if_ready returns, and run_install lines
\* 171-185: the flag is cleared; after a success the entity is deactivated and the notification
\* sent; after a failure publish_state is called (line 179) and the thread
\* waits for its version lookup.  An exception other than InstallError leaves
\* install_if_ready and run_install at line 169.
RiFinishBody(t, out) ==
    IF out = "unexpected"
    THEN /\ pc' = [pc EXCEPT ![t] = "raised"]
         /\ th' = [th EXCEPT ![t].exc = "unexpected"]
         /\ UNCHANGED <<in_progress, mqtt_vars, client_vars>>
    ELSE LET success == (out = "ok")
             n == IF success
                  THEN [pc |-> Returned(t), th |-> Installed(th[t], success)]
                  ELSE CallPublish(t, Installed(th[t], success), "ri_republish",
                                   th[t].latest_arg)
         IN  /\ in_progress' = FALSE
             /\ SetMq(IF mqtt_service /\ success THEN deactivate_update_entity(Mq) ELSE Mq)
             /\ pc' = [pc EXCEPT ![t] = n.pc]
             /\ th' = [th EXCEPT ![t] = n.th]

RiFinish(t) ==
    /\ pc[t] = "ri_installing"
    /\ Runnable(t)
    /\ \E out \in InstallOutcomes(th[t].found) : RiFinishBody(t, out)
    /\ UNCHANGED <<config_vars, marker, store, latest_version, mqtt_service, cb, install_calls,
                   net_requests, cycles, downloads, obs, aux_vars>>


\* How many auto_cycle_once runs a run has: the main-loop specification runs
\* MaxTicks iterations, the others MaxCycles cycles.
CycleLimit == IF sched = "loop" THEN loop.limit ELSE MaxCycles

\* A loop that goes on whether or not shutdown was requested.
loop_condition_ignores_stop(l) == TRUE

\* main.main, line 166: the condition of the loop, not stop_event.is_set().
loop_condition(l) == ~l.stop

\* A cycle that goes on whatever the flag says.
cycle_entry_unguarded(progress) == "ac_fetch"

\* auto_cycle_once, lines 116-118: where the cycle goes from its first line,
\* back to the caller while in_progress is set.
cycle_entry(progress) == IF progress THEN "idle" ELSE "ac_fetch"

\* auto_cycle_once, lines 116-118: the cycle is skipped while in_progress is set.
\* The main loop starts it at the top of an iteration (main.py, lines 166-167).
AutoCycleCheck ==
    /\ pc[AutoThread] = "idle"
    /\ Runnable(AutoThread)
    /\ cycles < CycleLimit
    /\ sched = "loop" => /\ loop.pos = "cycle"
                         /\ cycles = loop.ticks
                         /\ loop_condition(loop)
                         /\ loop.handler # "stopping"
    /\ cycles' = cycles + 1
    /\ pc' = [pc EXCEPT ![AutoThread] = cycle_entry(in_progress)]
    /\ th' = [th EXCEPT ![AutoThread] = [NewThread EXCEPT !.skipped = in_progress]]
    /\ UNCHANGED <<config_vars, marker, store, in_progress, latest_version, mqtt_service,
                   mqtt_vars, client_vars, cb, install_calls, net_requests, downloads, obs, aux_vars>>

\* auto_cycle_once, lines 121-127, when the metadata fetch ends: the cache
\* takes the version of the feed; after a failed fetch a cache that holds a
\* version is kept, and with an empty one the thread waits for the version
\* lookup of line 128.
AutoCycleFetchBody(fo) ==
    IF fo = "ok"
    THEN /\ latest_version' = feed.version
         /\ pc' = [pc EXCEPT ![AutoThread] = "cad"]
    ELSE /\ UNCHANGED latest_version
         /\ pc' = [pc EXCEPT ![AutoThread] =
                       IF Truthy(latest_version) THEN "cad" ELSE "ac_lookup"]

AutoCycleFetch ==
    /\ pc[AutoThread] = "ac_fetch"
    /\ Runnable(AutoThread)
    /\ \E fo \in FetchOutcomes : AutoCycleFetchBody(fo)
    /\ th' = [th EXCEPT ![AutoThread].auto_download = auto_update,
                        ![AutoThread].with_orch = FALSE]
    /\ UNCHANGED <<config_vars, marker, store, in_progress, mqtt_service, mqtt_vars, client_vars,
                   cb, install_calls, net_requests, cycles, downloads, obs, aux_vars>>

\* auto_cycle_once, line 128, when the version lookup ends: the cache is set
\* to the installed version (or "unknown"), whatever it holds by now.  The
\* lookup is inside the except block: what it raises leaves auto_cycle_once.
AutoCycleLookup ==
    /\ pc[AutoThread] = "ac_lookup"
    /\ Runnable(AutoThread)
    /\ \E cur \in CurrentOutcomes :
         IF cur = "raise"
         THEN /\ UNCHANGED latest_version
              /\ pc' = [pc EXCEPT ![AutoThread] = "raised"]
              /\ th' = [th EXCEPT ![AutoThread].exc = "SupervisorError"]
         ELSE /\ latest_version' = (IF cur = "ok" THEN InstalledVersion ELSE V_unknown)
              /\ pc' = [pc EXCEPT ![AutoThread] = "cad"]
              /\ UNCHANGED th
    /\ UNCHANGED <<config_vars, marker, store, in_progress, mqtt_service, mqtt_vars, client_vars,
                   cb, install_calls, net_requests, cycles, downloads, obs, aux_vars>>

\* str(None), the version of an entry that carries none.
V_None == <<78, 111, 110, 101>>

\* updater.fetch_available_update on the answer d of the endpoint, with
\* _handle_request_error: a requests.RequestException becomes NetworkError,
\* every other exception DownloadError; the version is str() of the entry or
\* of its "version" field.
fetch_available_update(d) ==
    IF d.kind \in {"request_error", "bad_json"}
    THEN [raises |-> "NetworkError", info |-> NoInfo]
    ELSE IF d.kind \in {"other_error", "bad_json_legacy", "missing_keys", "not_object"}
    THEN [raises |-> "DownloadError", info |-> NoInfo]
    ELSE IF d.kind = "object"
    THEN [raises |-> "none",
          info |-> [version |-> IF d.version = None THEN V_None ELSE d.version,
                    sha256 |-> d.sha256]]
    ELSE [raises |-> "none",
          info |-> [version |-> IF d.version = None THEN V_None ELSE d.version,
                    sha256 |-> None]]

\* The versions versions.json holds in the specifications below.
FeedVersions == {V_15_2_0, V_15_3_0, <<>>}

\* is_newer(available.version, installed) of line 141, for each version the
\* feed can hold.
newer_than_installed == [v \in FeedVersions |-> is_newer(v, InstalledVersion)]

\* updater.check_for_update_and_download up to the download_update call: only
\* NetworkError of the fetch is caught (line 139).
CheckForUpdateBody(t, cur, fo) ==
    IF cur = "raise"
    THEN /\ pc' = [pc EXCEPT ![t] = "raised"]
         /\ th' = [th EXCEPT ![t].exc = "SupervisorError"]
    ELSE IF cur = "none"
    THEN /\ pc' = [pc EXCEPT ![t] = "cad_ret"]
         /\ th' = [th EXCEPT ![t].ret = None]
    ELSE IF fo = "DownloadError"
    THEN /\ pc' = [pc EXCEPT ![t] = "raised"]
         /\ th' = [th EXCEPT ![t].exc = "DownloadError"]
    ELSE IF fo = "NetworkError"
    THEN /\ pc' = [pc EXCEPT ![t] = "cad_ret"]
         /\ th' = [th EXCEPT ![t].ret = None]
    ELSE IF newer_than_installed[feed.version] /\ th[t].auto_download
    THEN /\ pc' = [pc EXCEPT ![t] = "dl_start"]
         /\ th' = [th EXCEPT ![t].info = feed]
    ELSE /\ pc' = [pc EXCEPT ![t] = "cad_ret"]
         /\ th' = [th EXCEPT ![t].ret = None]

CheckForUpdate(t) ==
    /\ pc[t] = "cad"
    /\ Runnable(t)
    /\ \E cur \in CurrentOutcomes, fo \in FetchOutcomes : CheckForUpdateBody(t, cur, fo)
    /\ UNCHANGED <<config_vars, marker, store, in_progress, latest_version, mqtt_service,
                   mqtt_vars, client_vars, cb, install_calls, net_requests, cycles,
                   downloads, obs, aux_vars>>

\* auto_cycle_once, lines 132-139, after check_and_download has returned:
\* run_install with the bundle, or publish_state(), in which the thread waits
\* for the version lookup.
AutoCycleAfter ==
    /\ pc[AutoThread] = "cad_ret"
    /\ Runnable(AutoThread)
    /\ LET r == th[AutoThread]
           n == IF r.ret # None /\ auto_update
                THEN [pc |-> "ri_start",
                      th |-> [r EXCEPT !.bundle_path = r.ret, !.latest_arg = None]]
                ELSE CallPublish(AutoThread, r, "cycle", None)
       IN  /\ pc' = [pc EXCEPT ![AutoThread] = n.pc]
           /\ th' = [th EXCEPT ![AutoThread] = n.th]
    /\ UNCHANGED <<config_vars, marker, store, in_progress, latest_version, mqtt_service,
                   mqtt_vars, client_vars, cb, install_calls, net_requests, cycles, downloads,
                   obs, aux_vars>>


\* ------------------------------------------------------------ download_update
\* The threads that hold the file of a path open for writing lose it when the
\* path is unlinked: what they write from then on goes to no path.
Orphan(thr, names) ==
    [u \in DOMAIN thr |->
        IF thr[u].fd = "open" /\ Filename(thr[u].info.version) \in names
        THEN [thr[u] EXCEPT !.fd = "orphan"] ELSE thr[u]]

\* download_update, lines 88-105: the check of a file already there, the
\* removal of a file that fails it and of the other bundles, and the entry
\* of _download_progress: with an orchestrator the flag is set (updater.py
\* line 71) and publish_state called, in which the thread waits for the
\* version lookup; else the request of line 107 is under way.
DlStartBody(t) ==
    LET r == [th[t] EXCEPT !.before = store]
        info == r.info
        name == Filename(info.version)
        exists == name \in DOMAIN store
        accept == exists /\ (IF Truthy(info.sha256)
                             THEN verify_sha256(store[name], info.sha256) ELSE TRUE)
        removed == (BundleFiles(store) \ {name}) \cup (IF exists THEN {name} ELSE {})
        n == IF r.with_orch THEN CallPublish(t, r, "dl_enter", info.version)
             ELSE [pc |-> "dl_request", th |-> r]
    IN  IF accept
        THEN /\ pc' = [pc EXCEPT ![t] = DlReturn(t, "none")]
             /\ th' = [th EXCEPT ![t] = [r EXCEPT !.ret = name, !.early = TRUE]]
             /\ UNCHANGED <<store, in_progress>>
        ELSE /\ store' = CleanOldBundles(Unlink(store, name), name)
             /\ in_progress' = (IF r.with_orch THEN TRUE ELSE in_progress)
             /\ pc' = [pc EXCEPT ![t] = n.pc]
             /\ th' = [Orphan(th, removed) EXCEPT ![t] = n.th]

DlStart(t) ==
    /\ pc[t] = "dl_start"
    /\ Runnable(t)
    /\ DlStartBody(t)
    /\ UNCHANGED <<config_vars, marker, latest_version, mqtt_service, mqtt_vars, client_vars,
                   cb, install_calls, net_requests, cycles, downloads, obs, aux_vars>>

\* The end of the with block of download_update, with the path returned or
\* the exception e on its way out: the finally clause of _download_progress
\* clears the flag (updater.py line 71) and calls publish_state, in which the
\* thread waits for the version lookup; without an orchestrator, or without
\* a service, the result goes to the caller at once.
DlExit(t, r, e) ==
    LET q == [r EXCEPT !.dl_exc = e, !.fd = "none", !.off = 0, !.flushed = 0,
                       !.stream = "none"]
    IN  IF r.with_orch THEN CallPublish(t, q, "dl_exit", r.info.version)
        ELSE AfterPublish(t, [q EXCEPT !.ps_site = "dl_exit"], NoCall, FALSE)

\* What requests.get, raise_for_status and open(path, "wb") can do (lines 107-109).
RequestOutcomes == IF "server" \notin faults THEN {"ok"} ELSE {"ok", "NetworkError", "DownloadError"}

\* What the server streams once it has answered: the bundle, or other bytes.
StreamKinds == IF "server" \notin faults THEN {"ok"} ELSE {"ok", "damaged"}

\* The bytes of a stream.
Streamed(version, kind) ==
    IF kind = "ok" THEN ServerContent(version) ELSE DamagedContent(version)

\* The file that holds c once the buffered writer of open(path, "wb") has
\* handed it the bytes from + 1 .. to of data, at the offset where it had
\* stopped: another writer of the same file may have truncated it since, and
\* the gap reads as zeros.
Flush(c, data, from, to) ==
    IF to <= from THEN c
    ELSE [i \in 1..(IF Len(c) > to THEN Len(c) ELSE to) |->
            IF i > from /\ i <= to THEN data[i] ELSE IF i <= Len(c) THEN c[i] ELSE 0]

\* The store once the writer of thread record r has handed its file the
\* bytes it holds up to the offset to; a file that was unlinked since is in
\* no path.
Flushed(files, r, to) ==
    LET name == Filename(r.info.version)
    IN  IF r.fd = "open" /\ name \in DOMAIN files
        THEN WriteFile(files, name,
                       Flush(files[name], Streamed(r.info.version, r.stream), r.flushed, to))
        ELSE files

\* download_update, lines 107-109, when the server answers: the target file
\* is opened for writing (created, or truncated when it is there), and the
\* thread waits for the first chunk; a failed request goes to
\* _handle_request_error and leaves the with block.
DlRequest(t) ==
    /\ pc[t] = "dl_request"
    /\ Runnable(t)
    /\ net_requests' = net_requests + 1
    /\ \E out \in RequestOutcomes, kind \in StreamKinds :
         LET r == [th[t] EXCEPT !.requests = 1]
             n == IF out = "ok"
                  THEN [pc |-> "dl_stream",
                        th |-> [r EXCEPT !.fd = "open", !.off = 0, !.flushed = 0,
                                         !.stream = kind]]
                  ELSE DlExit(t, r, out)
         IN  /\ store' = (IF out = "ok"
                          THEN WriteFile(store, Filename(r.info.version), <<>>)
                          ELSE store)
             /\ in_progress' = (IF out # "ok" /\ r.with_orch THEN FALSE ELSE in_progress)
             /\ pc' = [pc EXCEPT ![t] = n.pc]
             /\ th' = [th EXCEPT ![t] = n.th]
    /\ UNCHANGED <<config_vars, marker, latest_version, mqtt_service, mqtt_vars, client_vars,
                   cb, install_calls, cycles, downloads, obs, aux_vars>>

\* What the wait for the next chunk can end with: the chunk, or a requests
\* error or another error.
ChunkOutcomes == IF "server" \notin faults THEN {"ok"} ELSE {"ok", "NetworkError", "DownloadError"}

\* download_update, lines 109-113, when the wait of iter_content ends with
\* the next chunk or with an error.  fw.write hands a chunk to the buffered
\* writer of open(path, "wb"), which keeps it or passes bytes on to the file
\* (the file of the path unless the path was unlinked since): what the file
\* holds is a prefix of what was written, how long depends on the sizes of
\* the chunks and of the buffer.  An error, which can also come where the
\* end of the stream was due, after the last chunk, goes to
\* _handle_request_error and leaves the with block, which closes the file:
\* the bytes written so far reach it and stay where they are.
DlChunk(t) ==
    /\ pc[t] = "dl_stream"
    /\ Runnable(t)
    /\ th[t].off <= Len(Streamed(th[t].info.version, th[t].stream))
    /\ \E out \in ChunkOutcomes :
         LET r == th[t]
         IN  IF out = "ok"
             THEN /\ r.off < Len(Streamed(r.info.version, r.stream))
                  /\ \E k \in r.flushed..(r.off + 1) :
                       /\ store' = Flushed(store, r, k)
                       /\ th' = [th EXCEPT ![t] = [r EXCEPT !.off = @ + 1, !.flushed = k]]
                  /\ pc' = pc
                  /\ in_progress' = in_progress
             ELSE LET n == DlExit(t, r, out)
                  IN  /\ store' = Flushed(store, r, r.off)
                      /\ in_progress' = (IF r.with_orch THEN FALSE ELSE in_progress)
                      /\ pc' = [pc EXCEPT ![t] = n.pc]
                      /\ th' = [th EXCEPT ![t] = n.th]
    /\ UNCHANGED <<config_vars, marker, latest_version, mqtt_service, mqtt_vars, client_vars,
                   cb, install_calls, net_requests, cycles, downloads, obs, aux_vars>>

\* download_update, lines 109-118, when the stream ends: the file is closed,
\* which hands it the bytes the writer still holds, and, with a digest in
\* the descriptor, the file of the path is verified (line 115, outside the
\* try block of lines 106-113): a path that is gone raises
\* FileNotFoundError, a file that fails the check is unlinked and
\* DownloadError raised.
DlFinishBody(t) ==
    LET r == th[t]
        info == r.info
        name == Filename(info.version)
        closed == Flushed(store, r, r.off)
        e == IF ~Truthy(info.sha256) THEN "none"
             ELSE IF name \notin DOMAIN closed THEN "FileNotFoundError"
             ELSE IF ~verify_sha256(closed[name], info.sha256) THEN "DownloadError"
             ELSE "none"
        n == DlExit(t, r, e)
    IN  /\ store' = (IF e = "DownloadError" THEN Unlink(closed, name) ELSE closed)
        /\ in_progress' = (IF r.with_orch THEN FALSE ELSE in_progress)
        /\ pc' = [pc EXCEPT ![t] = n.pc]
        /\ th' = [(IF e = "DownloadError" THEN Orphan(th, {name}) ELSE th) EXCEPT ![t] = n.th]

DlFinish(t) ==
    /\ pc[t] = "dl_stream"
    /\ Runnable(t)
    /\ th[t].off = Len(Streamed(th[t].info.version, th[t].stream))
    /\ DlFinishBody(t)
    /\ UNCHANGED <<config_vars, marker, latest_version, mqtt_service, mqtt_vars, client_vars,
                   cb, install_calls, net_requests, cycles, downloads, obs, aux_vars>>


\* ----------------------------------------------------------- handle_install_cmd
\* A handler that drops no command.
install_guard_off == FALSE

\* Whether the guard of handle_install_cmd (main.py line 26) drops the command.
install_guard == in_progress

\* main.handle_install_cmd, lines 26-29: where the handler goes from its
\* guard: back to the caller when the command is dropped, else to
\* orchestrator.get_versions(), an attribute UpdateOrchestrator does not
\* have: AttributeError leaves the handler.
handle_install_entry(dropped) == IF dropped THEN "done" ELSE "raised"

\* main.handle_install_cmd on a worker of the executor: an "install" command
\* is dropped when in_progress is set; else the handler ends at line 29,
\* before check_for_update_and_download(auto_download=True,
\* orchestrator=orchestrator) of line 32 is reached.
HandleInstallCmd(t) ==
    /\ t \in Workers
    /\ pc[t] = "idle"
    /\ Runnable(t)
    /\ LET to == handle_install_entry(install_guard)
       IN  /\ pc' = [pc EXCEPT ![t] = to]
           /\ th' = [th EXCEPT ![t].guard_installing =
                                   \E u \in Threads : pc[u] = "ri_installing",
                               ![t].exc = IF to = "raised" THEN "AttributeError" ELSE @,
                               ![t].auto_download = TRUE,
                               ![t].with_orch = TRUE]
    /\ UNCHANGED <<config_vars, marker, store, in_progress, latest_version, mqtt_service,
                   mqtt_vars, client_vars, cb, install_calls, net_requests, cycles,
                   downloads, obs, aux_vars>>

\* ----------------------------------------------------------------- MqttService
\* The result codes the client library hands to _on_connect: an integer
\* (paho 1.x), or a reason-code object (paho 2.x) that int() cannot convert
\* and that compares equal to 0 when its value is 0.
ReasonCodes == {[kind |-> "int", value |-> 0], [kind |-> "int", value |-> 5],
                [kind |-> "reason", value |-> 0], [kind |-> "reason", value |-> 135]}

\* No result code delivered yet.
NoRc == [kind |-> "none", value |-> -1]

\* Every result code is taken for a success.
reason_code_always_zero(rc) == 0

\* _on_connect, lines 144-147: int(rc), and when that fails, 0 if rc == 0 else 1.
reason_code(rc) ==
    IF rc.kind = "int" THEN rc.value
    ELSE IF rc.value = 0 THEN 0 ELSE 1

\* What marker.touch of _maybe_migrate_discovery (lines 176-179) can do: the
\* file is written, or the write fails and the failure is passed over.
TouchOutcomes == IF "nodata" \in faults THEN {"ok", "fail"} ELSE {"ok"}

\* MqttService._on_connect, lines 144-150: under the lock the connected flag
\* takes the outcome of the result code.
on_connect(rc, m) == [m EXCEPT !.connected = reason_code(rc) = 0]

\* MqttService._on_connect with a result code, lines 142-154: the flag is
\* set and the lock released; a callback with a failure code returns, one
\* with a success code goes on to the subscription.
OnConnect ==
    /\ cb = "idle"
    /\ mqtt_service
    /\ sched = "loop" => loop.running
    /\ \E rc \in ReasonCodes :
         /\ SetMq(on_connect(rc, Mq))
         /\ cb' = IF reason_code(rc) = 0 THEN "connecting" ELSE "idle"
    /\ UNCHANGED <<config_vars, marker, store, in_progress, latest_version, mqtt_service,
                   pc, th, install_calls, net_requests, cycles, downloads, obs, aux_vars>>

\* One call the client receives: subscribe, publish, disconnect or loop_stop,
\* with its topic, what the payload is, the retain flag and the QoS.
ClientOp(op, topic, payload, retain, qos) ==
    [op |-> op, topic |-> topic, payload |-> payload, retain |-> retain, qos |-> qos]

\* The calls _on_connect makes on the client at most: the subscription, the
\* migration's publish and the three messages of the discovery publish.
OnConnectClientCalls == 5

\* What the client does with the calls a callback makes on it, one after
\* the other.
ClientAnswers == [1..OnConnectClientCalls -> ClientOutcomes]

\* One call of the client inside a callback whose run so far is s (the
\* service, the answers still to come, the calls made, whether an exception
\* is on its way out): not made when an exception is on its way or when the
\* caller's conditions (reaches) keep it from the client; a call that raises
\* changes nothing, else the service is as in after.
client_call(s, reaches, after, op) ==
    IF s.exc \/ ~reaches THEN s
    ELSE IF Head(s.outs) = "raise"
    THEN [s EXCEPT !.exc = TRUE, !.raised = TRUE, !.outs = Tail(@), !.ops = Append(@, op)]
    ELSE [s EXCEPT !.mq = after, !.outs = Tail(@), !.ops = Append(@, op)]

\* MqttService._publish_discovery inside a callback, lines 231-260: the
\* configuration, the online availability (publish_update_availability, when
\* ready) and the retained initial state, each by _publish, which calls the
\* client while connected and lets what it raises pass.
publish_discovery_calls(s) ==
    IF s.exc \/ ~s.mq.active THEN s
    ELSE LET a == client_call(s, s.mq.connected, publish_disc_topic(s.mq, "config"),
                              ClientOp("publish", UPDATE_DISC_TOPIC, "config", TRUE, 1))
             b == client_call(a, is_ready(a.mq) /\ a.mq.connected,
                              publish_avail_topic(a.mq, "online"),
                              ClientOp("publish", UPDATE_AVAIL_TOPIC, "online", TRUE, 1))
         IN  IF b.mq.initial_versions.set
             THEN client_call(b, b.mq.connected,
                              publish_state_topic(b.mq,
                                  StatePayload(b.mq.initial_versions.installed,
                                               b.mq.initial_versions.latest, FALSE), TRUE),
                              ClientOp("publish", STATE_TOPIC, "state", TRUE, 1))
             ELSE b

\* MqttService._maybe_migrate_discovery, lines 164-183: with the marker file
\* absent the empty retained discovery payload goes to the client by
\* client.publish and the marker is written (a failed write is passed
\* over); when the publish raises, the except clause of line 182 logs the
\* exception, which goes no further, and the marker is not written.
maybe_migrate_discovery(s, touch) ==
    IF s.exc \/ s.marker THEN s
    ELSE LET p == client_call(s, TRUE, [s.mq EXCEPT !.last_disc = "empty"],
                              ClientOp("publish", UPDATE_DISC_TOPIC, "empty", TRUE, 1))
         IN  IF p.exc THEN [p EXCEPT !.exc = FALSE]
             ELSE [p EXCEPT !.marker = (touch = "ok")]

\* MqttService._on_connect, lines 157-162, after a success: the command topic
\* is subscribed and, with discovery, the migration and the discovery publish
\* run on the service as it is by then; outs is what the client does with
\* each call, and an exception of the client leaves the callback.
on_connect_publish(m, touch, outs) ==
    LET s == client_call([mq |-> m, outs |-> outs, ops |-> <<>>, exc |-> FALSE,
                          raised |-> FALSE, marker |-> marker],
                         TRUE, m, ClientOp("subscribe", COMMAND_TOPIC, "none", FALSE, 1))
    IN  IF discovery_enabled
        THEN publish_discovery_calls(maybe_migrate_discovery(s, touch))
        ELSE s

\* MqttService._publish, lines 262-276: the client's publish call, made only
\* while connected.
publish_ops(m, topic, payload, retain) ==
    IF ~m.connected THEN <<>> ELSE <<ClientOp("publish", topic, payload, retain, 1)>>

\* A discovery publish that sends the initial state before the configuration.
publish_discovery_ops_state_first(m) ==
    IF ~m.active THEN <<>>
    ELSE (IF m.initial_versions.set
          THEN publish_ops(m, STATE_TOPIC, "state", TRUE) ELSE <<>>)
         \o publish_ops(m, UPDATE_DISC_TOPIC, "config", TRUE)
         \o (IF is_ready(m) THEN publish_ops(m, UPDATE_AVAIL_TOPIC, "online", TRUE) ELSE <<>>)

\* MqttService._publish_discovery, lines 231-260, as the calls the client
\* receives, in the order of the statements.
publish_discovery_ops(m) ==
    IF ~m.active THEN <<>>
    ELSE publish_ops(m, UPDATE_DISC_TOPIC, "config", TRUE)
         \o (IF is_ready(m) THEN publish_ops(m, UPDATE_AVAIL_TOPIC, "online", TRUE) ELSE <<>>)
         \o (IF m.initial_versions.set
             THEN publish_ops(m, STATE_TOPIC, "state", TRUE) ELSE <<>>)

\* MqttService._maybe_migrate_discovery, lines 170-175: client.publish of the
\* empty retained payload, when the marker file is absent.
maybe_migrate_ops(m) ==
    IF marker THEN <<>> ELSE <<ClientOp("publish", UPDATE_DISC_TOPIC, "empty", TRUE, 1)>>

\* MqttService._on_connect, lines 157-162, as the calls the client receives.
on_connect_ops(m) ==
    <<ClientOp("subscribe", COMMAND_TOPIC, "none", FALSE, 1)>>
    \o (IF discovery_enabled
        THEN maybe_migrate_ops(m) \o publish_discovery_ops(m)
        ELSE <<>>)

\* A stop that disconnects the client before it publishes.
stop_ops_disconnect_first(m) ==
    <<ClientOp("disconnect", "none", "none", FALSE, 0)>>
    \o (IF m.connected /\ discovery_enabled /\ m.active
        THEN <<ClientOp("publish", UPDATE_AVAIL_TOPIC, "offline", TRUE, 1)>> ELSE <<>>)
    \o <<ClientOp("loop_stop", "none", "none", FALSE, 0)>>

\* MqttService.stop, lines 278-294, as the calls the client receives: the
\* offline availability by client.publish when connected with the entity
\* active, then disconnect, then loop_stop.
stop_ops(m) ==
    (IF m.connected /\ discovery_enabled /\ m.active
     THEN <<ClientOp("publish", UPDATE_AVAIL_TOPIC, "offline", TRUE, 1)>> ELSE <<>>)
    \o <<ClientOp("disconnect", "none", "none", FALSE, 0)>>
    \o <<ClientOp("loop_stop", "none", "none", FALSE, 0)>>

\* A stop() call on the service, lines 278-284, with the calls the client
\* receives kept for inspection: those up to the publish, for which stop
\* waits (line 284), and those still to come.
StopCall ==
    /\ mqtt_service
    /\ ~msg.stopping
    /\ SetMq(stop(Mq))
    /\ LET ops == stop_ops(Mq)
           at == {i \in 1..Len(ops) : ops[i].op = "publish"}
           k == IF at = {} THEN 0 ELSE CHOOSE i \in at : \A j \in at : i <= j
       IN  msg' = [msg EXCEPT !.stops = 1, !.stopping = TRUE,
                              !.stop_ops = SubSeq(ops, 1, k),
                              !.stop_rest = SubSeq(ops, k + 1, Len(ops))]
    /\ UNCHANGED <<config_vars, marker, store, in_progress, latest_version, mqtt_service,
                   pc, th, cb, install_calls, net_requests, cycles, downloads, obs,
                   loop, doc, cmp>>

\* The stop() call goes on after the wait, lines 288-292, and returns.
StopReturn ==
    /\ msg.stopping
    /\ msg' = [msg EXCEPT !.stopping = FALSE, !.stop_ops = @ \o msg.stop_rest,
                          !.stop_rest = <<>>]
    /\ UNCHANGED <<config_vars, marker, store, in_progress, latest_version, mqtt_service,
                   mqtt_vars, client_vars, pc, th, cb, install_calls, net_requests, cycles,
                   downloads, obs, loop, doc, cmp>>

\* _on_connect as the network thread calls it, lines 142-154, with the
\* result code it was given kept for inspection.
OnConnectCall ==
    /\ cb = "idle"
    /\ mqtt_service
    /\ msg.connects < MaxConnects
    /\ \E rc \in ReasonCodes :
         /\ SetMq(on_connect(rc, Mq))
         /\ cb' = IF reason_code(rc) = 0 THEN "connecting" ELSE "idle"
         /\ msg' = [msg EXCEPT !.connects = @ + 1, !.rc = rc, !.ops = <<>>]
    /\ UNCHANGED <<config_vars, marker, store, in_progress, latest_version, mqtt_service,
                   pc, th, install_calls, net_requests, cycles, downloads, obs, loop, doc,
                   cmp>>

\* The rest of _on_connect after a success, lines 157-162: the subscription,
\* the migration and the discovery publish, the client answering each call
\* or raising; whether an exception left the callback is kept, and of a
\* callback whose result code was kept, the calls the client receives are
\* kept too.
OnConnectPublish ==
    /\ cb = "connecting"
    /\ \E touch \in TouchOutcomes, outs \in ClientAnswers :
         LET r == on_connect_publish(Mq, touch, outs)
             kept == IF msg.connects = 0 THEN msg
                     ELSE [msg EXCEPT
                             !.subs = @ + 1,
                             !.ops = IF r.raised THEN r.ops ELSE on_connect_ops(Mq),
                             !.migrations =
                                 IF \E i \in 1..Len(r.ops) : r.ops[i].payload = "empty"
                                 THEN @ + 1 ELSE @]
         IN  /\ SetMq(r.mq)
             /\ marker' = r.marker
             /\ msg' = [kept EXCEPT !.cb_exc = IF r.exc THEN "ClientError" ELSE "none"]
    /\ cb' = "idle"
    /\ UNCHANGED <<config_vars, store, in_progress, latest_version, mqtt_service, pc, th,
                   install_calls, net_requests, cycles, downloads, obs, loop, doc, cmp>>

\* MqttService._on_disconnect, lines 186-187: the connected flag is cleared.
\* rc = 0 is a clean disconnect.
OnDisconnectFlag ==
    /\ cb = "idle"
    /\ mqtt_service
    /\ sched = "loop" => loop.running
    /\ \E rc \in {0, 7} :
         obs' = [unclean |-> rc # 0, was_active |-> update_entity_active,
                 was_connected |-> connected, attempted |-> FALSE, sent |-> FALSE,
                 early_false |-> FALSE, reads |-> obs.reads]
    /\ connected' = FALSE
    /\ cb' = "disconnecting"
    /\ UNCHANGED <<config_vars, marker, store, in_progress, latest_version, mqtt_service,
                   update_entity_active, initial_versions, client_vars, pc, th,
                   install_calls, net_requests, cycles, downloads, aux_vars>>

\* The rest of _on_disconnect, lines 196-200, given whether the entity is active.
on_disconnect_publish(m) ==
    IF discovery_enabled /\ m.active THEN publish_update_availability(m, FALSE) ELSE m

\* MqttService._on_disconnect, lines 189-200: the offline availability publish.
OnDisconnectPublish ==
    /\ cb = "disconnecting"
    /\ LET m == on_disconnect_publish(Mq)
       IN  /\ SetMq(m)
           /\ obs' = [obs EXCEPT !.attempted = discovery_enabled /\ update_entity_active,
                                 !.sent = discovery_enabled /\ update_entity_active
                                          /\ is_ready(Mq)]
    /\ cb' = "idle"
    /\ UNCHANGED <<config_vars, marker, store, in_progress, latest_version, mqtt_service,
                   pc, th, install_calls, net_requests, cycles, downloads, aux_vars>>

\* An is_ready() call of another thread (the main loop, publish_update_state):
\* what it returns while a disconnect callback is under way is recorded.
IsReadyCall ==
    /\ obs.reads < MaxObservers
    /\ obs' = [obs EXCEPT !.reads = @ + 1,
                          !.early_false = @ \/ (cb = "disconnecting" /\ ~obs.attempted
                                                /\ ~is_ready(Mq))]
    /\ UNCHANGED <<config_vars, marker, store, in_progress, latest_version, mqtt_service,
                   mqtt_vars, client_vars, pc, th, cb, install_calls, net_requests, cycles,
                   downloads, aux_vars>>

\* A deactivate_update_entity() call, as run_install makes after a successful install.
DeactivateCall ==
    /\ SetMq(deactivate_update_entity(Mq))
    /\ UNCHANGED <<config_vars, marker, store, in_progress, latest_version, mqtt_service,
                   pc, th, cb, install_calls, net_requests, cycles, downloads, obs, aux_vars>>

\* A publish_update_state() call, as publish_state makes.
PublishStateCall ==
    /\ \E p \in BOOLEAN :
         SetMq(publish_update_state(Mq, InstalledVersion, feed.version, p))
    /\ UNCHANGED <<config_vars, marker, store, in_progress, latest_version, mqtt_service,
                   pc, th, cb, install_calls, net_requests, cycles, downloads, obs, aux_vars>>

\* A publish_update_availability() call.
AvailabilityCall ==
    /\ \E online \in BOOLEAN : SetMq(publish_update_availability(Mq, online))
    /\ UNCHANGED <<config_vars, marker, store, in_progress, latest_version, mqtt_service,
                   pc, th, cb, install_calls, net_requests, cycles, downloads, obs, aux_vars>>

\* A clear_retained_messages() call.
ClearCall ==
    /\ SetMq(clear_retained_messages(Mq))
    /\ UNCHANGED <<config_vars, marker, store, in_progress, latest_version, mqtt_service,
                   pc, th, cb, install_calls, net_requests, cycles, downloads, obs, aux_vars>>

\* MqttService._on_message with the payload "clear" on the command topic.
OnMessageClear ==
    /\ cb = "idle"
    /\ mqtt_service
    /\ SetMq(handle_clear(Mq))
    /\ UNCHANGED <<config_vars, marker, store, in_progress, latest_version, mqtt_service,
                   pc, th, cb, install_calls, net_requests, cycles, downloads, obs, aux_vars>>


\* A call of one of the service's public methods by a thread of the program,
\* up to its return or, in stop, up to the wait for the publish (line 284);
\* the calls are counted in downloads.
TransportCall(t) ==
    /\ AtRest(t)
    /\ downloads < MaxTransportCalls
    /\ downloads' = downloads + 1
    /\ \E method \in PublicMethods, online \in BOOLEAN, progress \in BOOLEAN,
          outs \in MethodAnswers :
         LET r == call_method(method, Mq, online, progress, outs)
         IN  /\ SetMq(r.mq)
             /\ pc' = [pc EXCEPT ![t] = IF r.exc THEN "raised"
                                        ELSE IF method = "stop" /\ stop_waits(Mq, outs)
                                        THEN "stop_wait" ELSE "done"]
             /\ th' = [th EXCEPT ![t] = [NewThread EXCEPT
                                           !.method = method,
                                           !.exc = IF r.exc THEN "ClientError" ELSE "none"]]
    /\ UNCHANGED <<config_vars, marker, store, in_progress, latest_version, mqtt_service,
                   cb, install_calls, net_requests, cycles, obs, aux_vars>>

\* stop() after the wait for its publish, lines 288-294: disconnect and
\* loop_stop, whose exceptions are caught, and the return.
TransportStopReturn(t) ==
    /\ pc[t] = "stop_wait"
    /\ pc' = [pc EXCEPT ![t] = "done"]
    /\ UNCHANGED <<config_vars, marker, store, in_progress, latest_version, mqtt_service,
                   mqtt_vars, client_vars, th, cb, install_calls, net_requests, cycles,
                   downloads, obs, aux_vars>>

\* The payloads of the messages: "install", "clear", the two with whitespace
\* around (" install", "clear\n", "install" after a no-break space),
\* "INSTALL", "in stall" and the empty payload.
Payloads ==
    {S_install, S_clear, <<32>> \o S_install, S_clear \o <<10>>, <<160>> \o S_install,
     <<73, 78, 83, 84, 65, 76, 76>>, <<105, 110, 32, 115, 116, 97, 108, 108>>, <<>>}

\* MqttService._on_message with a message of the command topic or of another
\* topic: _handle_install calls the install callback (main.py sets one),
\* _handle_clear clears and republishes while connected.
OnMessage ==
    /\ cb = "idle"
    /\ mqtt_service
    /\ msg.n < MaxMessages
    /\ \E topic \in {COMMAND_TOPIC, STATE_TOPIC}, payload \in Payloads :
         LET c == command_of(topic, payload)
         IN  /\ SetMq(IF c = "clear" THEN handle_clear(Mq) ELSE Mq)
             /\ msg' = [msg EXCEPT !.n = @ + 1, !.topic = topic, !.payload = payload,
                                   !.callbacks = IF c = "install" THEN 1 ELSE 0,
                                   !.cleared = c = "clear" /\ connected]
    /\ UNCHANGED <<config_vars, marker, store, in_progress, latest_version, mqtt_service,
                   pc, th, cb, install_calls, net_requests, cycles, downloads, obs,
                   loop, doc, cmp>>

\* ------------------------------------------------------------------- main loop
\* main.handle_mqtt_reconnection, line 83.
max_mqtt_retries == 5

\* A delay that grows by the step with no cap.
retry_delay_uncapped(n) == 30 + (n - 1) * 15

\* main.handle_mqtt_reconnection, line 84: min(30 + (n - 1) * 15, 120).
retry_delay(n) == IF 30 + (n - 1) * 15 < 120 THEN 30 + (n - 1) * 15 ELSE 120

\* What cfg.get_mqtt_params yields in initialize_and_setup_mqtt (lines 55-60):
\* a host, or none.  With "nohost" the configuration never yields a host.
BrokerOutcomes ==
    IF "nohost" \in faults THEN {"fail"}
    ELSE IF "broker" \notin faults THEN {"ok"} ELSE {"ok", "fail"}

\* The continue of main.main line 180: the next iteration starts at the loop
\* condition, the interval wait of lines 189-197 is not reached.
Continue(l) == [l EXCEPT !.pos = "cycle", !.ticks = @ + 1, !.slept = FALSE]

\* The end of a loop iteration, main.main lines 189-197: the interval wait,
\* then the next cycle.
NextTick(l) == [l EXCEPT !.pos = "cycle", !.ticks = @ + 1, !.slept = TRUE]

\* The return of handle_mqtt_reconnection: to the main loop, which goes on to
\* the interval wait, or to a caller that is not the main loop.
AttemptOver(l) == IF sched = "loop" THEN NextTick(l) ELSE [l EXCEPT !.pos = "call"]

\* handle_mqtt_reconnection, lines 82-86: the counter is incremented and the
\* delay computed; the delays of consecutive failed attempts are recorded.
EnterReconnection(l) ==
    [l EXCEPT !.retry = l.retry + 1,
              !.before = l.retry,
              !.outcome = "pending",
              !.pos = "backoff",
              !.delays = (IF l.retry = 0 THEN <<>> ELSE @) \o <<retry_delay(l.retry + 1)>>]

\* initialize_and_setup_mqtt, lines 54-77, given what the configuration
\* yields: without a host None is returned (lines 58-60); with a host the
\* MqttService object is constructed (line 63) and line 66 calls
\* orchestrator.get_versions, an attribute UpdateOrchestrator does not have:
\* the AttributeError is caught at line 75 and None is returned, the object
\* never started.  The result is "none" for None ("new" would be a service).
initialize_and_setup_mqtt(b) == [result |-> "none", built |-> b = "ok"]

\* A MqttService as its constructor leaves it (mqtt_service.py lines 73-76),
\* with the initial versions set: not connected, the update entity active.
NewService(m, versions) ==
    [m EXCEPT !.connected = FALSE, !.active = TRUE, !.initial_versions = versions]

\* The loop's record of what initialize_and_setup_mqtt constructed: one more
\* service object, and the update-entity flag its constructor gave it.
Constructed(l, r) ==
    IF r.built
    THEN [l EXCEPT !.built = @ + 1,
                   !.fresh_active = NewService(Mq, initial_versions).active]
    ELSE l

\* UpdateOrchestrator.set_mqtt_service, lines 32-34, with a started service:
\* the reference is replaced and the service it held before (previous) is
\* left as it is, so one more started service is not stopped.
set_mqtt_service(l, previous) == [l EXCEPT !.live = @ + 1, !.cur_live = TRUE]

\* MqttService.stop() on the orchestrator's service, as the transports that
\* are started and not stopped.
stop_current(l, service) ==
    IF service /\ l.cur_live THEN [l EXCEPT !.live = @ - 1, !.cur_live = FALSE] ELSE l

\* main.main, lines 131-136: the initial bring-up.  A service that
\* initialize_and_setup_mqtt returned would be wired to the orchestrator and
\* the grace flag set; it returns none.
LoopStart ==
    /\ sched = "loop"
    /\ loop.pos = "start"
    /\ \E b \in BrokerOutcomes :
         LET r == initialize_and_setup_mqtt(b)
             l == Constructed(loop, r)
         IN  /\ mqtt_service' = (r.result = "new")
             /\ loop' = [(IF r.result = "new" THEN set_mqtt_service(l, mqtt_service) ELSE l)
                            EXCEPT !.pos = "cycle", !.grace = (r.result = "new"),
                                   !.running = (r.result = "new")]
    /\ UNCHANGED <<config_vars, marker, store, in_progress, latest_version, mqtt_vars,
                   client_vars, pc, th, cb, install_calls, net_requests, cycles, downloads,
                   obs, direct_vars>>

\* main.main, lines 169-187, after auto_cycle_once has returned: the readiness
\* check, which starts the grace sleep, enters the reconnection path or
\* resets the counter on a healthy tick.
LoopCheck ==
    /\ sched = "loop"
    /\ loop.handler # "stopping"
    /\ loop.pos = "cycle"
    /\ pc[AutoThread] = "idle"
    /\ cycles = loop.ticks + 1
    /\ loop' = IF ~mqtt_service \/ ~is_ready(Mq)
               THEN IF loop.grace /\ mqtt_service
                    THEN [loop EXCEPT !.pos = "grace"]
                    ELSE EnterReconnection(loop)
               ELSE NextTick([loop EXCEPT !.retry = 0, !.outcome = "healthy"])
    /\ UNCHANGED <<config_vars, marker, store, in_progress, latest_version, mqtt_service,
                   mqtt_vars, client_vars, pc, th, cb, install_calls, net_requests, cycles,
                   downloads, obs, direct_vars>>

\* main.main, lines 173-180: after the grace sleep the readiness is checked
\* once more; a ready service resets the counter and ends the iteration.
\* The grace flag is set only for a service the bring-up returned.
LoopGrace ==
    /\ sched = "loop"
    /\ loop.handler # "stopping"
    /\ loop.pos = "grace"
    /\ loop' = IF is_ready(Mq)
               THEN Continue([loop EXCEPT !.grace = FALSE, !.retry = 0, !.outcome = "grace"])
               ELSE EnterReconnection([loop EXCEPT !.grace = FALSE])
    /\ UNCHANGED <<config_vars, marker, store, in_progress, latest_version, mqtt_service,
                   mqtt_vars, client_vars, pc, th, cb, install_calls, net_requests, cycles,
                   downloads, obs, direct_vars>>

\* A call handle_mqtt_reconnection(cfg, orchestrator, loop, count) by a caller
\* that is not the main loop, with the count the call before it returned.
ReconnectionCall ==
    /\ sched = "reconnect"
    /\ loop.pos = "call"
    /\ loop.ticks < loop.limit
    /\ loop' = [EnterReconnection(loop) EXCEPT !.ticks = @ + 1]
    /\ UNCHANGED <<config_vars, marker, store, in_progress, latest_version, mqtt_service,
                   mqtt_vars, client_vars, pc, th, cb, install_calls, net_requests, cycles,
                   downloads, obs, direct_vars>>

\* An initialisation that never looks at the current service.
initialize_never_skips(service, m) == FALSE

\* initialize_and_setup_mqtt, lines 47-50: after the backoff sleep the
\* function returns None at once when the orchestrator's service is ready.
initialize_skips(service, m) == service /\ is_ready(m)

\* handle_mqtt_reconnection, line 87: after the backoff sleep,
\* initialize_and_setup_mqtt returns None when the current service is ready
\* (lines 47-50; the result None is then kept as "skipped"), else it asks
\* the executor for the MQTT parameters and waits for them (line 55).
LoopInitialize ==
    /\ sched \in {"loop", "reconnect"}
    /\ loop.handler # "stopping"
    /\ loop.pos = "backoff"
    /\ loop' = IF initialize_skips(mqtt_service, Mq)
               THEN [loop EXCEPT !.pos = "initialized", !.result = "skipped"]
               ELSE [loop EXCEPT !.pos = "params"]
    /\ UNCHANGED <<config_vars, marker, store, in_progress, latest_version, mqtt_service,
                   mqtt_vars, client_vars, pc, th, cb, install_calls, net_requests, cycles,
                   downloads, obs, direct_vars>>

\* initialize_and_setup_mqtt, lines 55-77: the MQTT parameters have arrived;
\* the current service is not looked at again.
LoopParams ==
    /\ sched \in {"loop", "reconnect"}
    /\ loop.handler # "stopping"
    /\ loop.pos = "params"
    /\ \E b \in BrokerOutcomes :
         LET r == initialize_and_setup_mqtt(b)
         IN  loop' = [Constructed(loop, r) EXCEPT !.pos = "initialized",
                                                    !.result = r.result]
    /\ UNCHANGED <<config_vars, marker, store, in_progress, latest_version, mqtt_service,
                   mqtt_vars, client_vars, pc, th, cb, install_calls, net_requests, cycles,
                   downloads, obs, direct_vars>>

\* A counter that is never reset at the ceiling.
count_after_failure_no_ceiling(count) == count

\* The counter handle_mqtt_reconnection returns when no service was started
\* (lines 103-107): 0 at the ceiling, else the incremented count.
count_after_failure(count) == IF count >= max_mqtt_retries THEN 0 ELSE count

\* handle_mqtt_reconnection, lines 89-107, and main.main, lines 184-185: a
\* service that is ready after all resets the counter and stays wired; else
\* the attempt has failed.  Lines 97-102, for a service that
\* initialize_and_setup_mqtt returned, are not reached.
LoopReconnected ==
    /\ sched \in {"loop", "reconnect"}
    /\ loop.handler # "stopping"
    /\ loop.pos = "initialized"
    /\ loop.result # "new"
    /\ loop' = IF mqtt_service /\ is_ready(Mq)
               THEN AttemptOver([loop EXCEPT !.retry = 0, !.outcome = "already"])
               ELSE AttemptOver([loop EXCEPT
                                   !.retry = count_after_failure(loop.retry),
                                   !.outcome = IF loop.retry >= max_mqtt_retries
                                               THEN "ceiling" ELSE "failed"])
    /\ UNCHANGED <<config_vars, marker, store, in_progress, latest_version, mqtt_service,
                   mqtt_vars, client_vars, pc, th, cb, install_calls, net_requests, cycles,
                   downloads, obs, direct_vars>>

\* A call orchestrator.set_mqtt_service(service) with a service that was
\* constructed and started, the versions it was given set, made by the caller
\* of the reconnections between two of them.
SetServiceCall ==
    /\ sched = "reconnect"
    /\ loop.pos = "call"
    /\ cb = "idle"
    /\ loop.live < MaxServices
    /\ \E versions \in {NoVersions, [set |-> TRUE, installed |-> InstalledVersion,
                                     latest |-> feed.version]} :
         SetMq(NewService(Mq, versions))
    /\ mqtt_service' = TRUE
    /\ loop' = set_mqtt_service(loop, mqtt_service)
    /\ UNCHANGED <<config_vars, marker, store, in_progress, latest_version, pc, th, cb,
                   install_calls, net_requests, cycles, downloads, obs, direct_vars>>

\* MqttService.stop() on the orchestrator's service, if it has one, up to
\* the wait for the offline publish (mqtt_service.py lines 281-284).
StopPublish ==
    IF mqtt_service THEN SetMq(stop(Mq)) ELSE UNCHANGED <<mqtt_vars, client_vars>>

\* The rest of that stop(), lines 288-292: the client's disconnect may run
\* _on_disconnect before the network loop ends (ran), or the loop ends
\* without the callback.
StopService(ran) ==
    IF mqtt_service /\ ran
    THEN SetMq(on_disconnect_publish([Mq EXCEPT !.connected = FALSE]))
    ELSE UNCHANGED <<mqtt_vars, client_vars>>

\* main._graceful_shutdown, lines 145-148, run by the event loop while main
\* awaits (a cycle in the executor, a sleep, the MQTT parameters): stop() of
\* the current service is entered and, having published, waits; the event
\* loop runs nothing else until the handler returns.  The handler is
\* installed after the bring-up.
Signal ==
    /\ sched = "loop"
    /\ loop.pos \in {"cycle", "grace", "backoff", "params", "initialized"}
    /\ ~loop.stop
    /\ loop.handler = "none"
    /\ StopPublish
    /\ loop' = [loop EXCEPT !.handler = "stopping", !.signalled_at = pc[AutoThread]]
    /\ UNCHANGED <<config_vars, marker, store, in_progress, latest_version, mqtt_service,
                   pc, th, cb, install_calls, net_requests, cycles, downloads, obs,
                   direct_vars>>

\* main._graceful_shutdown, lines 148-154: stop() disconnects the client and
\* ends its network loop, which ends with the callback it is in, and the
\* stop event is set.
SignalDone ==
    /\ sched = "loop"
    /\ loop.handler = "stopping"
    /\ mqtt_service => cb = "idle"
    /\ \E ran \in BOOLEAN : StopService(ran)
    /\ loop' = [stop_current(loop, mqtt_service)
                   EXCEPT !.stop = TRUE, !.running = FALSE, !.handler = "done"]
    /\ UNCHANGED <<config_vars, marker, store, in_progress, latest_version, mqtt_service,
                   pc, th, cb, install_calls, net_requests, cycles, downloads, obs,
                   direct_vars>>

\* main.main, lines 166 and 198-201: the loop condition fails at the top of
\* an iteration, and the finally block enters stop() of the service.
LoopExit ==
    /\ sched = "loop"
    /\ loop.handler # "stopping"
    /\ loop.pos = "cycle"
    /\ pc[AutoThread] = "idle"
    /\ cycles = loop.ticks
    /\ ~loop_condition(loop)
    /\ StopPublish
    /\ loop' = [loop EXCEPT !.pos = "finally", !.leave = "exited"]
    /\ UNCHANGED <<config_vars, marker, store, in_progress, latest_version, mqtt_service,
                   pc, th, cb, install_calls, net_requests, cycles, downloads, obs,
                   direct_vars>>

\* main.main, lines 167, 181 and 198-201: nothing in the loop catches what
\* auto_cycle_once or handle_mqtt_reconnection raises; the exception leaves
\* the loop through the finally block, which enters stop() of the service.
LoopAbort ==
    /\ sched = "loop"
    /\ loop.handler # "stopping"
    /\ \/ loop.pos = "cycle" /\ pc[AutoThread] = "raised"
       \/ loop.pos = "raised"
    /\ StopPublish
    /\ loop' = [loop EXCEPT !.pos = "finally", !.leave = "aborted"]
    /\ UNCHANGED <<config_vars, marker, store, in_progress, latest_version, mqtt_service,
                   pc, th, cb, install_calls, net_requests, cycles, downloads, obs,
                   direct_vars>>

\* main.main, lines 198-203: the stop() of the finally block disconnects the
\* client and ends its network loop, and main is left, at the end of the loop
\* or by the exception.
LoopStopped ==
    /\ sched = "loop"
    /\ loop.pos = "finally"
    /\ mqtt_service => cb = "idle"
    /\ \E ran \in BOOLEAN : StopService(ran)
    /\ loop' = [stop_current(loop, mqtt_service)
                   EXCEPT !.pos = loop.leave, !.running = FALSE]
    /\ UNCHANGED <<config_vars, marker, store, in_progress, latest_version, mqtt_service,
                   pc, th, cb, install_calls, net_requests, cycles, downloads, obs,
                   direct_vars>>


\* --------------------------------------------------------------- specifications
\* A digest no content of the model has.
WrongDigest == <<48, 48>>

\* What versions.json can hold: a newer or the installed version, with or
\* without the digest of the bundle (printed in upper case), or a wrong digest.
Feeds ==
    {[version |-> v, sha256 |-> h] :
        v \in {V_15_3_0}, h \in {None, UpperDigest(HexDigest(ServerContent(V_15_3_0))),
                                 WrongDigest}}
    \cup {[version |-> V_15_2_0, sha256 |-> None]}

\* The initial versions main.initialize_and_setup_mqtt hands to a new service.
InitialVersions(f) ==
    {NoVersions, [set |-> TRUE, installed |-> InstalledVersion, latest |-> f.version]}

NoObs == [unclean |-> FALSE, was_active |-> FALSE, was_connected |-> FALSE,
          attempted |-> FALSE, sent |-> FALSE, early_false |-> FALSE, reads |-> 0]

\* main.main, lines 131-139: the loop's locals before the first iteration.
NoLoop == [retry |-> 0, grace |-> FALSE, pos |-> "cycle", ticks |-> 0,
           result |-> "none", built |-> 0, fresh_active |-> FALSE,
           delays |-> <<>>, outcome |-> "none", before |-> 0,
           stop |-> FALSE, running |-> FALSE, signalled_at |-> "none",
           limit |-> MaxTicks, slept |-> FALSE, live |-> 0, cur_live |-> FALSE,
           \* the signal handler: "none", "stopping" (inside stop()) or "done";
           \* and how main is left once its finally block has run
           handler |-> "none", leave |-> "none"]

\* No message delivered yet.
NoMsg == [n |-> 0, topic |-> "none", payload |-> <<>>, callbacks |-> 0, cleared |-> FALSE,
          connects |-> 0, rc |-> NoRc, subs |-> 0, ops |-> <<>>,
          migrations |-> 0, stops |-> 0,
          \* a stop() call under way, the calls it has handed to the client
          \* and those it has yet to make
          stopping |-> FALSE, stop_ops |-> <<>>, stop_rest |-> <<>>,
          \* the exception that left the last connect callback, if any
          cb_exc |-> "none"]

\* No direct is_newer call.
NoCmp == [ver_a |-> None, ver_b |-> None, parts_a |-> <<>>, parts_b |-> <<>>,
          key_a |-> <<>>, key_b |-> <<>>, called |-> FALSE, result |-> FALSE]

\* No direct fetch call.
NoDoc == [kind |-> "none", version |-> None, sha256 |-> None]

\* The state after construction of the orchestrator and of the MQTT service
\* wired to it (connected, entity active), or with no service (mqtt = FALSE),
\* before the first cycle and the first command.
InitOrchestrator(mqtt) ==
    /\ in_progress = FALSE
    /\ latest_version = None
    /\ mqtt_service = mqtt
    /\ connected = mqtt
    /\ update_entity_active = TRUE
    /\ initial_versions \in (IF mqtt THEN InitialVersions(feed) ELSE {NoVersions})
    /\ cb = "idle"
    /\ last_state = NoMessage
    /\ last_avail = "none"
    /\ last_disc = "none"
    /\ state_after_deact = FALSE
    /\ install_calls = 0
    /\ net_requests = 0
    /\ cycles = 0
    /\ downloads = 0
    /\ obs = NoObs
    /\ doc = NoDoc

\* The concurrent run: the newest feed; the installer or the feed may fail.
Init ==
    /\ sched = "concurrent"
    /\ auto_update \in BOOLEAN
    /\ faults \in {{}, {"installer"}, {"feed"}}
    /\ feed = [version |-> V_15_3_0,
               sha256 |-> UpperDigest(HexDigest(ServerContent(V_15_3_0)))]
    /\ marker = TRUE
    /\ store = <<>>
    /\ \E mqtt \in BOOLEAN : InitOrchestrator(mqtt)
    /\ loop = NoLoop
    /\ cmp = NoCmp
    /\ msg = NoMsg
    /\ pc = [t \in Threads |-> "idle"]
    /\ th = [t \in Threads |-> NewThread]

\* The sequential run: any feed, one call at a time.
InitSeq ==
    /\ sched = "sequential"
    /\ auto_update \in BOOLEAN
    /\ faults \in {{}, {"installer"}, Collaborators}
    /\ feed \in Feeds
    /\ marker = TRUE
    /\ store = <<>>
    /\ \E mqtt \in BOOLEAN : InitOrchestrator(mqtt)
    /\ loop = NoLoop
    /\ cmp = NoCmp
    /\ msg = NoMsg
    /\ pc = [t \in Threads |-> "idle"]
    /\ th = [t \in Threads |-> NewThread]

\* One step of a thread in the orchestrator, the updater or the command handler.
ThreadStep(t) ==
    \/ HandleInstallCmd(t)
    \/ CheckForUpdate(t)
    \/ DlStart(t)
    \/ DlRequest(t)
    \/ DlChunk(t)
    \/ DlFinish(t)
    \/ RiStart(t)
    \/ RiSet(t)
    \/ RiCall(t)
    \/ RiFinish(t)
    \/ PublishLookup(t)

\* The main loop's cycle and the command workers run concurrently.
Next ==
    \/ AutoCycleCheck
    \/ AutoCycleFetch
    \/ AutoCycleLookup
    \/ AutoCycleAfter
    \/ \E t \in Threads : ThreadStep(t)

Spec == Init /\ [][Next]_vars

SpecSeq == InitSeq /\ [][Next]_vars

\* The auto cycle next to one run_install call on another thread (thread 1),
\* or none; the bundle of the feed's version is in the store directory or is
\* not; the feed or the server may fail.
InitCycle ==
    /\ sched = "concurrent"
    /\ auto_update \in BOOLEAN
    /\ faults \in {{}, {"feed"}, {"server"}}
    /\ feed \in Feeds
    /\ marker = TRUE
    /\ store \in {<<>>, WriteFile(<<>>, Filename(feed.version),
                                  ServerContent(feed.version))}
    /\ \E mqtt \in BOOLEAN : InitOrchestrator(mqtt)
    /\ loop = NoLoop
    /\ cmp = NoCmp
    /\ msg = NoMsg
    /\ \E worker \in BOOLEAN :
         /\ pc = [t \in Threads |-> IF worker /\ t = 1 THEN "ri_start" ELSE "idle"]
         /\ th = [t \in Threads |->
                    IF worker /\ t = 1
                    THEN [NewThread EXCEPT !.bundle_path = Filename(feed.version),
                                           !.latest_arg = feed.version]
                    ELSE NewThread]

NextCycle ==
    \/ AutoCycleCheck
    \/ AutoCycleFetch
    \/ AutoCycleLookup
    \/ AutoCycleAfter
    \/ CheckForUpdate(AutoThread)
    \/ DlStart(AutoThread)
    \/ DlRequest(AutoThread)
    \/ DlChunk(AutoThread)
    \/ DlFinish(AutoThread)
    \/ \E t \in {AutoThread, 1} :
          \/ RiStart(t)
          \/ RiSet(t)
          \/ RiCall(t)
          \/ RiFinish(t)
          \/ PublishLookup(t)

SpecCycle == InitCycle /\ [][NextCycle]_vars

\* Direct invocations of run_install, each with the path of the bundle (which
\* is in the store directory or is not) and an optional latest version, by any
\* non-empty set of threads running concurrently.
InitRunInstall ==
    /\ sched = "concurrent"
    /\ auto_update = FALSE
    /\ faults \in {{}, {"installer"}, Collaborators}
    /\ feed = [version |-> V_15_3_0, sha256 |-> None]
    /\ marker = TRUE
    /\ store \in {<<>>, WriteFile(<<>>, Filename(feed.version),
                                  ServerContent(feed.version))}
    /\ \E mqtt \in BOOLEAN : InitOrchestrator(mqtt)
    /\ loop = NoLoop
    /\ cmp = NoCmp
    /\ msg = NoMsg
    /\ \E S \in (SUBSET Threads) \ {{}} :
         /\ pc = [t \in Threads |-> IF t \in S THEN "ri_start" ELSE "idle"]
         /\ th = [t \in Threads |->
                    IF t \in S
                    THEN [NewThread EXCEPT !.bundle_path = Filename(feed.version),
                                           !.latest_arg = IF t = AutoThread THEN None
                                                          ELSE feed.version]
                    ELSE NewThread]

NextRunInstall ==
    \E t \in Threads :
        \/ RiStart(t)
        \/ RiSet(t)
        \/ RiCall(t)
        \/ RiFinish(t)
        \/ PublishLookup(t)
        \/ PublishFetch(t)

SpecRunInstall == InitRunInstall /\ [][NextRunInstall]_vars

\* Direct calls of download_update, one after the other, on a store directory
\* that may hold bundles of earlier runs (whole, or damaged on disk).
StoreContents == {ServerContent(V_15_3_0), DamagedContent(V_15_3_0)}

Stores ==
    UNION {[S -> StoreContents] : S \in SUBSET {Filename(V_15_2_0), Filename(V_15_3_0)}}

\* A call download_update(info, orchestrator) with a descriptor of the feed.
DownloadCall(t) ==
    /\ AtRest(t)
    /\ Runnable(t)
    /\ downloads < MaxDownloads
    /\ downloads' = downloads + 1
    /\ \E info \in Feeds, orch \in BOOLEAN :
         th' = [th EXCEPT ![t] = [NewThread EXCEPT !.info = info, !.with_orch = orch,
                                                   !.direct = TRUE]]
    /\ pc' = [pc EXCEPT ![t] = "dl_start"]
    /\ UNCHANGED <<config_vars, marker, store, in_progress, latest_version, mqtt_service,
                   mqtt_vars, client_vars, cb, install_calls, net_requests, cycles, obs, aux_vars>>

InitDownload ==
    /\ sched = "sequential"
    /\ auto_update = FALSE
    /\ faults \in {{}, Collaborators}
    /\ feed = [version |-> V_15_3_0, sha256 |-> None]
    /\ marker = TRUE
    /\ store \in Stores
    /\ \E mqtt \in BOOLEAN : InitOrchestrator(mqtt)
    /\ loop = NoLoop
    /\ cmp = NoCmp
    /\ msg = NoMsg
    /\ pc = [t \in Threads |-> "idle"]
    /\ th = [t \in Threads |-> NewThread]

NextDownload ==
    \E t \in {1} :
        \/ DownloadCall(t)
        \/ DlStart(t)
        \/ DlRequest(t)
        \/ DlChunk(t)
        \/ DlFinish(t)
        \/ PublishLookup(t)

SpecDownload == InitDownload /\ [][NextDownload]_vars

\* Two threads call download_update at the same time on an empty store,
\* every collaborator answering: one call may unlink the file the other is
\* still writing.
InitDownloadPair ==
    /\ sched = "concurrent"
    /\ auto_update = FALSE
    /\ faults = {}
    /\ feed = [version |-> V_15_3_0, sha256 |-> None]
    /\ marker = TRUE
    /\ store = <<>>
    /\ \E mqtt \in BOOLEAN : InitOrchestrator(mqtt)
    /\ loop = NoLoop
    /\ cmp = NoCmp
    /\ msg = NoMsg
    /\ pc = [t \in Threads |-> "idle"]
    /\ th = [t \in Threads |-> NewThread]

NextDownloadPair ==
    \E t \in {1, 2} :
        \/ DownloadCall(t)
        \/ DlStart(t)
        \/ DlRequest(t)
        \/ DlChunk(t)
        \/ DlFinish(t)
        \/ PublishLookup(t)

SpecDownloadPair == InitDownloadPair /\ [][NextDownloadPair]_vars

\* The MQTT service alone: the callbacks of the client's network thread and
\* the calls other threads make on the service.
InitMqtt ==
    /\ sched = "concurrent"
    /\ auto_update = FALSE
    /\ faults = {}
    /\ feed = [version |-> V_15_3_0, sha256 |-> None]
    /\ marker \in BOOLEAN
    /\ store = <<>>
    /\ InitOrchestrator(TRUE)
    /\ loop = NoLoop
    /\ cmp = NoCmp
    /\ msg = NoMsg
    /\ pc = [t \in Threads |-> "idle"]
    /\ th = [t \in Threads |-> NewThread]

NextMqtt ==
    \/ OnConnect
    \/ OnConnectPublish
    \/ OnDisconnectFlag
    \/ OnDisconnectPublish
    \/ IsReadyCall
    \/ DeactivateCall
    \/ PublishStateCall
    \/ AvailabilityCall
    \/ ClearCall
    \/ OnMessageClear

SpecMqtt == InitMqtt /\ [][NextMqtt]_vars

\* The service with a client whose publish may raise, its public methods
\* called one after the other between the callbacks of the network thread.
InitTransport ==
    /\ sched = "concurrent"
    /\ auto_update = FALSE
    /\ faults \in {{}, {"client"}}
    /\ feed = [version |-> V_15_3_0, sha256 |-> None]
    /\ marker = TRUE
    /\ store = <<>>
    /\ InitOrchestrator(TRUE)
    /\ loop = NoLoop
    /\ cmp = NoCmp
    /\ msg = NoMsg
    /\ pc = [t \in Threads |-> "idle"]
    /\ th = [t \in Threads |-> NewThread]

NextTransport ==
    \/ \E t \in {1} : TransportCall(t)
    \/ \E t \in {1} : TransportStopReturn(t)
    \/ OnConnect
    \/ OnConnectPublish
    \/ OnDisconnectFlag
    \/ OnDisconnectPublish

SpecTransport == InitTransport /\ [][NextTransport]_vars

\* The service receiving messages between connects, disconnects and a
\* deactivation.
InitCommand ==
    /\ sched = "concurrent"
    /\ auto_update = FALSE
    /\ faults = {}
    /\ feed = [version |-> V_15_3_0, sha256 |-> None]
    /\ marker = TRUE
    /\ store = <<>>
    /\ InitOrchestrator(TRUE)
    /\ loop = NoLoop
    /\ cmp = NoCmp
    /\ msg = NoMsg
    /\ pc = [t \in Threads |-> "idle"]
    /\ th = [t \in Threads |-> NewThread]

NextCommand ==
    \/ OnMessage
    \/ OnConnect
    \/ OnConnectPublish
    \/ OnDisconnectFlag
    \/ OnDisconnectPublish
    \/ DeactivateCall

SpecCommand == InitCommand /\ [][NextCommand]_vars

\* The service and its client's network thread alone: connect callbacks with
\* the result codes of the library, disconnects, and the publishes of other
\* threads in between. The service starts not connected, as constructed.
InitConnect ==
    /\ sched = "concurrent"
    /\ auto_update = FALSE
    /\ faults \in {{}, {"nodata"}}
    /\ feed = [version |-> V_15_3_0, sha256 |-> None]
    /\ marker \in BOOLEAN
    /\ store = <<>>
    /\ in_progress = FALSE
    /\ latest_version = None
    /\ mqtt_service = TRUE
    /\ connected = FALSE
    /\ update_entity_active = TRUE
    /\ initial_versions \in InitialVersions(feed)
    /\ cb = "idle"
    /\ last_state = NoMessage
    /\ last_avail = "none"
    /\ last_disc = "none"
    /\ state_after_deact = FALSE
    /\ install_calls = 0
    /\ net_requests = 0
    /\ cycles = 0
    /\ downloads = 0
    /\ obs = NoObs
    /\ doc = NoDoc
    /\ loop = NoLoop
    /\ cmp = NoCmp
    /\ msg = NoMsg
    /\ pc = [t \in Threads |-> "idle"]
    /\ th = [t \in Threads |-> NewThread]

NextConnect ==
    \/ OnConnectCall
    \/ OnConnectPublish
    \/ StopCall
    \/ StopReturn
    \/ OnDisconnectFlag
    \/ OnDisconnectPublish
    \/ DeactivateCall
    \/ PublishStateCall

SpecConnect == InitConnect /\ [][NextConnect]_vars

\* A call check_for_update_and_download(auto_download, orchestrator) by a
\* caller that is not the orchestrator; the calls are counted in downloads.
CheckCall(t) ==
    /\ pc[t] \in {"idle", "cad_ret", "raised"}
    /\ Runnable(t)
    /\ downloads < MaxChecks
    /\ downloads' = downloads + 1
    /\ \E auto \in BOOLEAN, orch \in BOOLEAN :
         th' = [th EXCEPT ![t] = [NewThread EXCEPT !.auto_download = auto,
                                                   !.with_orch = orch]]
    /\ pc' = [pc EXCEPT ![t] = "cad"]
    /\ UNCHANGED <<config_vars, marker, store, in_progress, latest_version, mqtt_service,
                   mqtt_vars, client_vars, cb, install_calls, net_requests, cycles, obs,
                   aux_vars>>

\* Direct calls of check_for_update_and_download, one after the other, with
\* every collaborator answering or any of them failing.
InitCheck ==
    /\ sched = "sequential"
    /\ auto_update = FALSE
    /\ faults \in {{}, Collaborators}
    /\ feed \in Feeds
    /\ marker = TRUE
    /\ store = <<>>
    /\ \E mqtt \in BOOLEAN : InitOrchestrator(mqtt)
    /\ loop = NoLoop
    /\ cmp = NoCmp
    /\ msg = NoMsg
    /\ pc = [t \in Threads |-> "idle"]
    /\ th = [t \in Threads |-> NewThread]

NextCheck ==
    \E t \in {1} :
        \/ CheckCall(t)
        \/ CheckForUpdate(t)
        \/ DlStart(t)
        \/ DlRequest(t)
        \/ DlChunk(t)
        \/ DlFinish(t)
        \/ PublishLookup(t)

SpecCheck == InitCheck /\ [][NextCheck]_vars

\* str() of a number below 100.
IntStr(n) == IF n < 10 THEN <<48 + n>> ELSE <<48 + (n \div 10), 48 + (n % 10)>>

\* f"{major}.{minor}.{patch}"
Dotted(p) == IntStr(p[1]) \o <<46>> \o IntStr(p[2]) \o <<46>> \o IntStr(p[3])

\* The fields of the compared versions: one-digit and two-digit numbers.
Parts == {0, 9, MaxPart}

\* Versions that are not of the form major.minor.patch and that
\* packaging.version.Version parses: "15.3.0rc1", "15.3.0.dev1", "v15.3.0",
\* "15.3.0.post1" and "10.0a1", each with its place in the version order:
\* the release, the phase (development 0, alpha 1, beta 2, candidate 3,
\* final 4, post 5) and the number of the phase.  With them "15.3.0" and a
\* no-break space (the release itself), "15.3.0+" and the Kelvin sign (a
\* local version, above the release) and "15.3.0.post1" spelled with a long
\* s (a post-release whose letter sorts above "post").
TaggedVersions ==
    {[ver |-> V_15_3_0 \o <<160>>, parts |-> <<>>, key |-> <<15, 3, 0, 4, 0>>],
     [ver |-> V_15_3_0 \o <<43, 8490>>, parts |-> <<>>, key |-> <<15, 3, 0, 4, 0, 1>>],
     [ver |-> V_15_3_0 \o <<46, 112, 111, 383, 116, 49>>, parts |-> <<>>,
      key |-> <<15, 3, 0, 6, 1>>]} \cup
    {[ver |-> V_15_3_0 \o <<114, 99, 49>>, parts |-> <<>>, key |-> <<15, 3, 0, 3, 1>>],
     [ver |-> V_15_3_0 \o <<46, 100, 101, 118, 49>>, parts |-> <<>>,
      key |-> <<15, 3, 0, 0, 1>>],
     [ver |-> <<118>> \o V_15_3_0, parts |-> <<>>, key |-> <<15, 3, 0, 4, 0>>],
     [ver |-> V_15_3_0 \o <<46, 112, 111, 115, 116, 49>>, parts |-> <<>>,
      key |-> <<15, 3, 0, 5, 1>>],
     [ver |-> <<49, 48, 46, 48, 97, 49>>, parts |-> <<>>, key |-> <<10, 0, 0, 1, 1>>]}

\* The arguments of is_newer: versions major.minor.patch with their fields,
\* the tagged versions, and strings that are no version ("a", "b", "",
\* "unknown", "9..0"), with no fields and no place in the order.
CmpArgs ==
    {[ver |-> Dotted(p), parts |-> p, key |-> p \o <<4, 0>>] :
         p \in Parts \X Parts \X Parts}
    \cup TaggedVersions
    \cup {[ver |-> v, parts |-> <<>>, key |-> <<>>] :
              v \in {<<97>>, <<98>>, <<>>, V_unknown, <<57, 46, 46, 48>>}}

\* A call is_newer(ver_a, ver_b).
IsNewerCall ==
    /\ ~cmp.called
    /\ cmp' = [cmp EXCEPT !.called = TRUE, !.result = is_newer(cmp.ver_a, cmp.ver_b)]
    /\ UNCHANGED <<config_vars, marker, store, in_progress, latest_version, mqtt_service,
                   mqtt_vars, client_vars, pc, th, cb, install_calls, net_requests,
                   cycles, downloads, obs, loop, doc, msg>>

InitVersion ==
    /\ sched = "sequential"
    /\ auto_update = FALSE
    /\ faults = {}
    /\ feed = [version |-> V_15_3_0, sha256 |-> None]
    /\ marker = TRUE
    /\ store = <<>>
    /\ InitOrchestrator(FALSE)
    /\ loop = NoLoop
    /\ \E a \in CmpArgs, b \in CmpArgs :
         cmp = [NoCmp EXCEPT !.ver_a = a.ver, !.parts_a = a.parts, !.key_a = a.key,
                             !.ver_b = b.ver, !.parts_b = b.parts, !.key_b = b.key]
    /\ msg = NoMsg
    /\ pc = [t \in Threads |-> "idle"]
    /\ th = [t \in Threads |-> NewThread]

NextVersion == IsNewerCall

SpecVersion == InitVersion /\ [][NextVersion]_vars

\* What the metadata endpoint can answer to a request: a requests error
\* (connection, timeout, HTTP status), another error raised by the call, a
\* body that is not JSON (a requests error as of requests 2.27, a ValueError
\* before), a JSON document without the keys, a JSON value that is no object,
\* and a document whose entry is null, a string, or an object with or without
\* the version and the sha256.
FailureKinds == {"request_error", "other_error", "bad_json", "bad_json_legacy",
                 "missing_keys", "not_object"}

FetchDocs ==
    {[kind |-> k, version |-> None, sha256 |-> None] : k \in FailureKinds \cup {"null"}}
    \cup {[kind |-> "string", version |-> v, sha256 |-> None] :
              v \in {<<>>, V_15_2_0, V_15_3_0}}
    \cup {[kind |-> "object", version |-> v, sha256 |-> h] :
              v \in {None, <<>>, V_15_2_0, V_15_3_0},
              h \in {None, UpperDigest(HexDigest(ServerContent(V_15_3_0))), WrongDigest}}

\* A call fetch_available_update(), answered with a document of FetchDocs;
\* the calls are counted in downloads.
FetchCall(t) ==
    /\ AtRest(t)
    /\ Runnable(t)
    /\ downloads < MaxFetches
    /\ downloads' = downloads + 1
    /\ \E d \in FetchDocs :
         LET r == fetch_available_update(d)
         IN  /\ doc' = d
             /\ pc' = [pc EXCEPT ![t] = IF r.raises = "none" THEN "done" ELSE "raised"]
             /\ th' = [th EXCEPT ![t] = [NewThread EXCEPT !.info = r.info,
                                                          !.exc = r.raises]]
    /\ UNCHANGED <<config_vars, marker, store, in_progress, latest_version, mqtt_service,
                   mqtt_vars, client_vars, cb, install_calls, net_requests, cycles, obs,
                   loop, cmp, msg>>

InitFetch ==
    /\ sched = "sequential"
    /\ auto_update = FALSE
    /\ faults = {}
    /\ feed = [version |-> V_15_3_0, sha256 |-> None]
    /\ marker = TRUE
    /\ store = <<>>
    /\ InitOrchestrator(FALSE)
    /\ loop = NoLoop
    /\ cmp = NoCmp
    /\ msg = NoMsg
    /\ pc = [t \in Threads |-> "idle"]
    /\ th = [t \in Threads |-> NewThread]

NextFetch == \E t \in {1} : FetchCall(t)

SpecFetch == InitFetch /\ [][NextFetch]_vars

\* A call orchestrator.publish_state() with no arguments; the call and the
\* outcome of its version lookup are recorded (no lookup is made without a
\* service).  What it raises goes to the caller, who may call again.
PublishStateDirect(t) ==
    /\ pc[t] = "idle"
    /\ Runnable(t)
    /\ Len(th[t].pubs) < MaxPublishes
    /\ LET r == IF mqtt_service THEN th[t] ELSE [th[t] EXCEPT !.looks = Append(@, "none")]
           n == CallPublish(t, r, "direct", None)
       IN  /\ pc' = [pc EXCEPT ![t] = n.pc]
           /\ th' = [th EXCEPT ![t] = n.th]
    /\ UNCHANGED <<config_vars, marker, store, in_progress, latest_version, mqtt_service,
                   mqtt_vars, client_vars, cb, install_calls, net_requests, cycles,
                   downloads, obs, aux_vars>>

\* Direct publish_state() calls, one after the other, on a new orchestrator
\* (the cache empty) with or without a service, during an install or not.
InitPublish ==
    /\ sched = "sequential"
    /\ auto_update = FALSE
    /\ faults \in {{}, {"feed"}, {"feed", "supervisor"}, {"client"}}
    /\ feed \in Feeds
    /\ marker = TRUE
    /\ store = <<>>
    /\ \E mqtt \in BOOLEAN :
         /\ mqtt_service = mqtt
         /\ connected \in (IF mqtt THEN BOOLEAN ELSE {FALSE})
         /\ initial_versions \in (IF mqtt THEN InitialVersions(feed) ELSE {NoVersions})
    /\ in_progress \in BOOLEAN
    /\ latest_version = None
    /\ update_entity_active = TRUE
    /\ cb = "idle"
    /\ last_state = NoMessage
    /\ last_avail = "none"
    /\ last_disc = "none"
    /\ state_after_deact = FALSE
    /\ install_calls = 0
    /\ net_requests = 0
    /\ cycles = 0
    /\ downloads = 0
    /\ obs = NoObs
    /\ loop = NoLoop
    /\ cmp = NoCmp
    /\ msg = NoMsg
    /\ doc = NoDoc
    /\ pc = [t \in Threads |-> "idle"]
    /\ th = [t \in Threads |-> NewThread]

NextPublish ==
    \E t \in {1} :
        \/ PublishStateDirect(t)
        \/ PublishLookup(t)
        \/ PublishFetch(t)

SpecPublish == InitPublish /\ [][NextPublish]_vars

\* What versions.json can hold in the main-loop specification: the newer
\* version, or an empty version string.
LoopFeeds == {[version |-> V_15_3_0, sha256 |-> None], [version |-> <<>>, sha256 |-> None]}

\* The process of main.main: no service yet, the loop before its bring-up.
\* The broker, the feed or the supervisor may fail.
InitLoop ==
    /\ sched = "loop"
    /\ auto_update \in BOOLEAN
    /\ faults \in {{}, {"broker"}, {"broker", "feed"}}
    /\ feed \in LoopFeeds
    /\ marker = TRUE
    /\ store = <<>>
    /\ InitOrchestrator(FALSE)
    /\ loop = [NoLoop EXCEPT !.pos = "start"]
    /\ cmp = NoCmp
    /\ msg = NoMsg
    /\ pc = [t \in Threads |-> "idle"]
    /\ th = [t \in Threads |-> NewThread]

\* The main loop: the cycle on the executor thread, the readiness check and
\* the reconnection path.  No service is wired (initialize_and_setup_mqtt
\* returns none), so publish_state returns at its first line, the grace
\* sleep is not entered and no client calls back.
NextLoop ==
    \/ LoopStart
    \/ AutoCycleCheck
    \/ AutoCycleFetch
    \/ AutoCycleLookup
    \/ AutoCycleAfter
    \/ CheckForUpdate(AutoThread)
    \/ DlStart(AutoThread)
    \/ DlRequest(AutoThread)
    \/ DlChunk(AutoThread)
    \/ DlFinish(AutoThread)
    \/ RiStart(AutoThread)
    \/ RiSet(AutoThread)
    \/ RiCall(AutoThread)
    \/ RiFinish(AutoThread)
    \/ LoopCheck
    \/ LoopInitialize
    \/ LoopParams
    \/ LoopReconnected
    \/ LoopAbort
    \/ LoopStopped

SpecLoop == InitLoop /\ [][NextLoop]_vars

\* The process of main.main with its shutdown signal: the broker may fail,
\* or there is no broker at all and the supervisor may fail.
InitMain ==
    /\ sched = "loop"
    /\ auto_update \in BOOLEAN
    /\ faults \in {{}, {"broker"}, {"feed"}, {"nohost", "supervisor"}}
    /\ feed \in LoopFeeds
    /\ marker = TRUE
    /\ store = <<>>
    /\ InitOrchestrator(FALSE)
    /\ loop = [NoLoop EXCEPT !.pos = "start", !.limit = MaxMainTicks]
    /\ cmp = NoCmp
    /\ msg = NoMsg
    /\ pc = [t \in Threads |-> "idle"]
    /\ th = [t \in Threads |-> NewThread]

\* What the event loop, a signal handler it has entered and the executor
\* thread do on their own.
MainProgress ==
    \/ LoopStart
    \/ AutoCycleCheck
    \/ AutoCycleFetch
    \/ AutoCycleLookup
    \/ AutoCycleAfter
    \/ CheckForUpdate(AutoThread)
    \/ DlStart(AutoThread)
    \/ DlRequest(AutoThread)
    \/ DlChunk(AutoThread)
    \/ DlFinish(AutoThread)
    \/ RiStart(AutoThread)
    \/ RiSet(AutoThread)
    \/ RiCall(AutoThread)
    \/ RiFinish(AutoThread)
    \/ LoopCheck
    \/ LoopInitialize
    \/ LoopParams
    \/ LoopReconnected
    \/ LoopExit
    \/ LoopAbort
    \/ LoopStopped
    \/ SignalDone

NextMain ==
    \/ MainProgress
    \/ Signal

SpecMain == InitMain /\ [][NextMain]_vars

\* The event loop and the executor thread keep running: a step they can take
\* is taken.
SpecMainFair == SpecMain /\ WF_vars(MainProgress)

\* Direct calls of handle_mqtt_reconnection and of set_mqtt_service on an
\* orchestrator that holds a started service, connected or not, next to the
\* callbacks of the client's network thread and to one run_install of a
\* worker (thread 1), or none; the bundle is in the store directory or is not.
InitReconnect ==
    /\ sched = "reconnect"
    /\ auto_update = FALSE
    /\ faults \in {{}, {"installer"}, {"broker"}}
    /\ feed = [version |-> V_15_3_0, sha256 |-> None]
    /\ marker = TRUE
    /\ store \in {<<>>, WriteFile(<<>>, Filename(feed.version),
                                  ServerContent(feed.version))}
    /\ in_progress = FALSE
    /\ latest_version = None
    /\ mqtt_service = TRUE
    /\ connected \in BOOLEAN
    /\ update_entity_active = TRUE
    /\ initial_versions \in InitialVersions(feed)
    /\ cb = "idle"
    /\ last_state = NoMessage
    /\ last_avail = "none"
    /\ last_disc = "none"
    /\ state_after_deact = FALSE
    /\ install_calls = 0
    /\ net_requests = 0
    /\ cycles = 0
    /\ downloads = 0
    /\ obs = NoObs
    /\ doc = NoDoc
    /\ loop = [NoLoop EXCEPT !.pos = "call", !.limit = MaxReconnections,
                             !.running = TRUE, !.live = 1, !.cur_live = TRUE]
    /\ cmp = NoCmp
    /\ msg = NoMsg
    /\ \E worker \in BOOLEAN :
         /\ pc = [t \in Threads |-> IF worker /\ t = 1 THEN "ri_start" ELSE "idle"]
         /\ th = [t \in Threads |->
                    IF worker /\ t = 1
                    THEN [NewThread EXCEPT !.bundle_path = Filename(feed.version),
                                           !.latest_arg = feed.version]
                    ELSE NewThread]

NextReconnect ==
    \/ ReconnectionCall
    \/ LoopInitialize
    \/ LoopParams
    \/ LoopReconnected
    \/ SetServiceCall
    \/ OnConnect
    \/ OnConnectPublish
    \/ OnDisconnectFlag
    \/ OnDisconnectPublish
    \/ \E t \in {1} :
          \/ RiStart(t)
          \/ RiSet(t)
          \/ RiCall(t)
          \/ RiFinish(t)
          \/ PublishLookup(t)

SpecReconnect == InitReconnect /\ [][NextReconnect]_vars

\* The main loop of main.main after a bring-up that returned a service, as
\* with the initialize_and_setup_mqtt of test_main_mqtt_init_grace_branch:
\* the service is wired and started, its client not yet connected, and the
\* grace flag set (main.py lines 133-136); the client's network thread calls
\* back while the loop runs.  No bundle is downloaded (auto_update off).
InitGrace ==
    /\ sched = "loop"
    /\ auto_update = FALSE
    /\ faults \in {{}, {"feed"}}
    /\ feed = [version |-> V_15_3_0, sha256 |-> None]
    /\ marker = TRUE
    /\ store = <<>>
    /\ in_progress = FALSE
    /\ latest_version = None
    /\ mqtt_service = TRUE
    /\ connected = FALSE
    /\ update_entity_active = TRUE
    /\ initial_versions \in InitialVersions(feed)
    /\ cb = "idle"
    /\ last_state = NoMessage
    /\ last_avail = "none"
    /\ last_disc = "none"
    /\ state_after_deact = FALSE
    /\ install_calls = 0
    /\ net_requests = 0
    /\ cycles = 0
    /\ downloads = 0
    /\ obs = NoObs
    /\ doc = NoDoc
    /\ loop = [NoLoop EXCEPT !.pos = "cycle", !.limit = MaxMainTicks, !.grace = TRUE,
                             !.running = TRUE, !.built = 1, !.fresh_active = TRUE,
                             !.live = 1, !.cur_live = TRUE]
    /\ cmp = NoCmp
    /\ msg = NoMsg
    /\ pc = [t \in Threads |-> "idle"]
    /\ th = [t \in Threads |-> NewThread]

NextGrace ==
    \/ AutoCycleCheck
    \/ AutoCycleFetch
    \/ AutoCycleLookup
    \/ AutoCycleAfter
    \/ CheckForUpdate(AutoThread)
    \/ PublishLookup(AutoThread)
    \/ LoopCheck
    \/ LoopGrace
    \/ LoopInitialize
    \/ LoopParams
    \/ LoopReconnected
    \/ OnConnect
    \/ OnConnectPublish
    \/ OnDisconnectFlag
    \/ OnDisconnectPublish

SpecGrace == InitGrace /\ [][NextGrace]_vars

\* The auto cycle next to a thread that calls
\* updater.check_for_update_and_download(auto_download, orchestrator) with
\* the parameters the function has (updater.py line 131).  No statement of
\* the program makes this call with an orchestrator: handle_install_cmd ends
\* at main.py line 29, and its line 32 passes a dev_channel argument the
\* function does not take.  The feed names the bundle with or without its
\* digest.
InitManual ==
    /\ sched = "concurrent"
    /\ auto_update = TRUE
    /\ faults = {}
    /\ feed \in {[version |-> V_15_3_0, sha256 |-> None],
                 [version |-> V_15_3_0,
                  sha256 |-> UpperDigest(HexDigest(ServerContent(V_15_3_0)))]}
    /\ marker = TRUE
    /\ store = <<>>
    /\ \E mqtt \in BOOLEAN : InitOrchestrator(mqtt)
    /\ loop = NoLoop
    /\ cmp = NoCmp
    /\ msg = NoMsg
    /\ pc = [t \in Threads |-> "idle"]
    /\ th = [t \in Threads |-> NewThread]

NextManual ==
    \/ AutoCycleCheck
    \/ AutoCycleFetch
    \/ AutoCycleAfter
    \/ RiStart(AutoThread)
    \/ RiSet(AutoThread)
    \/ RiCall(AutoThread)
    \/ RiFinish(AutoThread)
    \/ \E t \in {1} : CheckCall(t)
    \/ \E t \in {AutoThread, 1} :
          \/ CheckForUpdate(t)
          \/ DlStart(t)
          \/ DlRequest(t)
          \/ DlChunk(t)
          \/ DlFinish(t)
          \/ PublishLookup(t)

SpecManual == InitManual /\ [][NextManual]_vars


\* ------------------------------------------------------------------ properties
\* Thread t is the only one that has run anything so far, and its call is its
\* first one.
Alone(t) ==
    /\ \A u \in Threads \ {t} : pc[u] = "idle" /\ th[u] = NewThread
    /\ cycles <= (IF t = AutoThread THEN 1 ELSE 0)

\* Every thread is outside its call.
AllAtRest == \A t \in Threads : AtRest(t)

\* Thread t has ended a call in which it invoked the installer.
InstallEnded(t) == AtRest(t) /\ th[t].calls > 0

\* C1: among concurrent run_install invocations, with every collaborator
\* answering, at most one invocation calls the installer, and once all of them
\* have returned exactly one has and in_progress is not set.
C1_ExactlyOneInstallerCall ==
    healthy =>
        /\ install_calls <= 1
        /\ AllAtRest => (install_calls = 1 /\ ~in_progress)

\* C2: a worker whose install command is handled while the installer is
\* executing drops the command and returns; no worker makes a download
\* request or an installer call, so the installer invocations observed are
\* those of the auto cycle alone, at most one for each cycle that has started.
C2_CommandDuringInstallIsDropped ==
    /\ \A t \in Workers :
          /\ th[t].guard_installing => (pc[t] = "done" /\ th[t].exc = "none")
          /\ th[t].requests = 0
          /\ th[t].calls = 0
    /\ install_calls <= cycles

\* A command was handled and dropped while the installer of the auto cycle
\* was executing.
C2_Witness ==
    /\ \E t \in Workers : th[t].guard_installing /\ pc[t] = "done"
    /\ pc[AutoThread] = "ri_installing"
    /\ install_calls = 1

\* C3: once a run_install call that invoked the installer has ended, by a
\* return or by an exception, in_progress is false.
C3_FlagClearedAfterInstall ==
    \A t \in Threads : (InstallEnded(t) /\ Alone(t)) => ~in_progress

\* The happy path has run: installed 15.2.0, available 15.3.0, auto-update on,
\* every collaborator answering, a connected service, and one auto cycle that
\* downloaded the bundle and installed it, nothing else having run.
HappyPathDone ==
    /\ healthy /\ auto_update /\ mqtt_service
    /\ feed.version = V_15_3_0
    /\ cycles = 1 /\ pc[AutoThread] = "idle"
    /\ th[AutoThread].success = "true"
    /\ th[AutoThread].requests = 1
    /\ Alone(AutoThread)

\* C4 as stated: after the happy path the last published state message is
\* {15.2.0, 15.3.0, in_progress false}, the entity is deactivated and no state
\* message was published after the deactivation.
C4_HappyPathLastStateIdle ==
    HappyPathDone =>
        /\ last_state.sent
        /\ last_state.payload = StatePayload(V_15_2_0, V_15_3_0, FALSE)
        /\ ~update_entity_active
        /\ ~state_after_deact

\* C4 amended: after the happy path the last published state message is the
\* one sent before the installer ran, {15.2.0, 15.3.0, in_progress true}; the
\* flag itself is false again, the entity is deactivated with availability
\* "offline", and no state message was published after the deactivation.
C4_HappyPathLastStateInProgress ==
    HappyPathDone =>
        /\ last_state.sent
        /\ last_state.payload = StatePayload(V_15_2_0, V_15_3_0, TRUE)
        /\ ~in_progress
        /\ ~update_entity_active
        /\ last_avail = "offline"
        /\ ~state_after_deact

\* The happy path has run and its in-progress message reached the client.
C4_Witness ==
    /\ HappyPathDone
    /\ last_state.payload = StatePayload(V_15_2_0, V_15_3_0, TRUE)
    /\ install_calls = 1

\* C5: a run_install whose installer succeeded has deactivated the update
\* entity exactly once (when a service is set), sent the success notification
\* exactly once, made no publish_state call after the installer returned, and
\* is over; when nothing else has run, no state message reached the client
\* after the one published before the installer.
C5_SuccessDeactivatesNotifiesOnce ==
    \A t \in Threads :
        th[t].success = "true" =>
            /\ th[t].calls = 1
            /\ th[t].deact = (IF mqtt_service THEN 1 ELSE 0)
            /\ th[t].note_ok = 1
            /\ th[t].note_fail = 0
            /\ ~th[t].pub_after.called
            /\ pc[t] # "ri_installing"
            /\ th[t].ps_site # "ri_republish"
            /\ (Alone(t) /\ AtRest(t) /\ mqtt_service) =>
                   /\ ~update_entity_active
                   /\ ~state_after_deact
                   /\ (last_state.sent /\ th[t].pub_before.called) =>
                          last_state.payload = th[t].pub_before.payload

\* A run_install succeeded with a service set and connected, nothing else
\* having run.
C5_Witness ==
    \E t \in Threads :
        /\ th[t].success = "true" /\ AtRest(t) /\ Alone(t)
        /\ mqtt_service /\ th[t].deact = 1 /\ th[t].note_ok = 1
        /\ last_state.sent /\ last_state.payload.in_progress

\* C6: when only the installer fails, a run_install that invoked it and has
\* ended, nothing else having run, returned normally with success = false, republished the state with
\* in_progress false and the version pair of the message before the install
\* (when a service is set), sent no success notification and did not
\* deactivate the entity.
C6_FailureRepublishesAndReturns ==
    \A t \in Threads :
        (faults = {"installer"} /\ InstallEnded(t) /\ Alone(t)
         /\ th[t].success # "true") =>
            /\ pc[t] # "raised"
            /\ th[t].success = "false"
            /\ th[t].note_ok = 0
            /\ th[t].deact = 0
            /\ mqtt_service =>
                   /\ th[t].pub_after.called
                   /\ th[t].pub_after.payload =
                          [th[t].pub_before.payload EXCEPT !.in_progress = FALSE]

\* Thread t is in, or has ended, a direct download_update call whose first
\* step (the check of the file already there) is done.
InDownload(t) == th[t].direct /\ pc[t] # "dl_start"

\* The target file name of thread t's descriptor.
Target(t) == Filename(th[t].info.version)

\* The digest of the content is the expected one, as hexadecimal numbers.
SameDigest(content, expected) == Lower(HexDigest(content)) = Lower(expected)

\* Thread t's call found a target file with the expected digest / another digest.
FoundMatching(t) ==
    /\ Target(t) \in DOMAIN th[t].before
    /\ SameDigest(th[t].before[Target(t)], th[t].info.sha256)
FoundDiffering(t) ==
    /\ Target(t) \in DOMAIN th[t].before
    /\ ~SameDigest(th[t].before[Target(t)], th[t].info.sha256)

\* C7: for a descriptor with a hash, a target file found with the matching
\* digest is returned at once, with no request and the store as it was; a
\* target file found with another digest is deleted before any request and is
\* never accepted: a request follows unless the progress publish raises first;
\* and a returned path names a file of the store with the expected digest.
C7_HashRoundTrip ==
    \A t \in Threads :
        (InDownload(t) /\ Truthy(th[t].info.sha256)) =>
            /\ FoundMatching(t) =>
                   /\ pc[t] = "done"
                   /\ th[t].ret = Target(t)
                   /\ th[t].requests = 0
                   /\ store = th[t].before
            /\ FoundDiffering(t) =>
                   /\ ~th[t].early
                   /\ th[t].requests = 0 => Target(t) \notin DOMAIN store
                   /\ AtRest(t) => (th[t].requests = 1 \/ th[t].dl_exc = "SupervisorError")
                   /\ pc[t] = "done" => store[Target(t)] = ServerContent(th[t].info.version)
            /\ th[t].ret # None =>
                   /\ pc[t] = "done"
                   /\ th[t].ret = Target(t)
                   /\ th[t].ret \in DOMAIN store
                   /\ SameDigest(store[th[t].ret], th[t].info.sha256)

\* A call returned a matching file found in the store without a request, whose
\* digest the feed prints in upper case.
C7_Witness ==
    \E t \in Threads :
        /\ InDownload(t) /\ pc[t] = "done" /\ FoundMatching(t)
        /\ th[t].info.sha256 # HexDigest(store[Target(t)])
        /\ th[t].requests = 0 /\ th[t].ret = Target(t)

\* C8: a download_update call (made with no coordinator) that failed raised
\* DownloadError and left no file at the target path.
C8_FailureLeavesNoFile ==
    \A t \in Threads :
        (InDownload(t) /\ ~th[t].with_orch /\ pc[t] = "raised") =>
            /\ th[t].dl_exc = "DownloadError"
            /\ Target(t) \notin DOMAIN store

\* C9: after a download_update call has returned a path, the store holds
\* exactly one bundle file, named as the descriptor.
C9_SingleBundleAfterDownload ==
    \A t \in Threads :
        (InDownload(t) /\ pc[t] = "done") => BundleFiles(store) = {Target(t)}

\* An unclean disconnect callback, entered with the service connected and the
\* update entity active.
UncleanWhileActive == obs.unclean /\ obs.was_active /\ obs.was_connected

\* C10: in an unclean disconnect callback entered with the entity active, the
\* connected flag is still true until the offline publish has been attempted,
\* no is_ready() call sees false before the attempt, and the attempt sends
\* "offline" to the client.
C10_OfflineBeforeFlag ==
    UncleanWhileActive =>
        /\ (cb = "disconnecting" /\ ~obs.attempted) => connected
        /\ ~obs.early_false
        /\ (cb = "idle" /\ obs.attempted) => obs.sent

\* What the MQTT client was handed on the three topics.
ClientOf(m) == <<m.last_state, m.last_avail, m.last_disc>>

\* C11: is_ready() is true exactly when the update entity is active and the
\* service is connected, and while is_ready() is false none of the public
\* publish methods (publish_update_state, publish_update_availability,
\* deactivate_update_entity, clear_retained_messages) hands anything to the
\* client.
C11_ReadyGuardsPublishing ==
    /\ is_ready(Mq) <=> (update_entity_active /\ connected)
    /\ ~is_ready(Mq) =>
          /\ \A p \in BOOLEAN :
                ClientOf(publish_update_state(Mq, InstalledVersion, feed.version, p))
                    = ClientOf(Mq)
          /\ \A online \in BOOLEAN :
                ClientOf(publish_update_availability(Mq, online)) = ClientOf(Mq)
          /\ ClientOf(deactivate_update_entity(Mq)) = ClientOf(Mq)
          /\ ClientOf(clear_retained_messages(Mq)) = ClientOf(Mq)

\* C12: the update-entity-active flag of the service the orchestrator holds
\* goes from true to false only in a step in which an install succeeds, and
\* once an install has deactivated the entity the flag is true on no service
\* object the reconnection path constructs.
C12_DeactivatedOnceForGood ==
    [][/\ (update_entity_active /\ ~update_entity_active') =>
              \E t \in Threads : th[t].success # "true" /\ th'[t].success = "true"
       /\ ((\E t \in Threads : th[t].deact > 0) /\ loop'.built > loop.built) =>
              ~loop'.fresh_active]_vars

\* C13: once the update entity of the service is deactivated, no step hands
\* the client a discovery config, an "online" availability or a state
\* message: not a connect callback, not a publish_update_state call, not a
\* "clear" command.
C13_RetiredAfterDeactivation ==
    [][~update_entity_active =>
          /\ last_disc' = "config" => last_disc = "config"
          /\ last_avail' = "online" => last_avail = "online"
          /\ ~state_after_deact']_vars

\* C14: once the latest-version cache holds the version a successful metadata
\* fetch returned, no step changes or clears it (the feed holds one version
\* throughout a run, so every later change would be a fallback after a
\* failed fetch), and a state message published from then on carries it.
C14_CacheKeptOnFailedFetch ==
    [][latest_version = feed.version =>
          /\ latest_version' = feed.version
          /\ (last_state' # last_state /\ last_state'.payload # NoState) =>
                 last_state'.payload.latest_version = feed.version]_vars

\* C15: of two consecutive publish_state() calls with no arguments, nothing
\* else having run in between and the installed-version lookup answering the
\* same way, the second hands publish_update_state the payload of the first
\* (same installed_version, latest_version and in_progress), and when both
\* reached the client the cache still holds that latest version.
C15_PublishStateIdempotent ==
    \A t \in Threads :
        \A i \in 1..(Len(th[t].pubs) - 1) :
            th[t].looks[i] = th[t].looks[i + 1] =>
                /\ th[t].pubs[i + 1] = th[t].pubs[i]
                /\ (i + 1 = Len(th[t].pubs) /\ th[t].pubs[i].called) =>
                       latest_version = th[t].pubs[i].payload.latest_version

\* Two publish_state() calls reached the client, the first resolving the
\* latest version by a fetch that can fail.
C15_Witness ==
    \E t \in Threads :
        /\ Len(th[t].pubs) = 2
        /\ th[t].pubs[1].called /\ th[t].pubs[2].called
        /\ th[t].looks[1] = th[t].looks[2]
        /\ "feed" \in faults /\ connected
        /\ last_state.payload = th[t].pubs[2].payload

\* A run_install call is between setting and clearing in_progress.
InInstall ==
    \E t \in Threads :
        \/ pc[t] \in {"ri_call", "ri_installing"}
        \/ pc[t] \in {"ps_lookup", "ps_fetch"} /\ th[t].ps_site = "ri_set"

\* Thread t takes the step of run_install that sets, or that clears, in_progress.
InstallFlagStep(t) ==
    \/ pc[t] = "ri_set" /\ pc'[t] # "ri_set"
    \/ pc[t] = "ri_installing" /\ pc'[t] # "ri_installing"

\* C16: in_progress is written only by run_install, where it sets the flag
\* before the installer call and clears it after, and every state message
\* handed to the client carries in_progress true exactly when a run_install
\* is between the two.
C16_InProgressMirrorsInstall ==
    [][/\ in_progress' # in_progress => \E t \in Threads : InstallFlagStep(t)
       /\ last_state' # last_state => last_state'.payload.in_progress = InInstall']_vars

\* The delays of the first five attempts: base 30, step 15.
FirstDelays == <<30, 45, 60, 75, 90>>

\* The main loop is between two iterations.
AtBoundary == loop.pos = "cycle"

\* C17: for every attempt number n >= 1 the reconnection delay is the smaller
\* of 30 + (n - 1) * 15 and 120, so it never decreases with n and never
\* exceeds the cap; the delays the loop computes over consecutive failed
\* attempts are 30, 45, 60, 75, 90, at most five of them; and after the fifth
\* consecutive failure the counter is 0 again.
C17_BackoffDelays ==
    /\ \A n \in 1..MaxAttempt :
          LET d == retry_delay(n)
              linear == 30 + (n - 1) * 15
          IN  /\ d <= linear /\ d <= 120
              /\ d = linear \/ d = 120
              /\ n > 1 => d >= retry_delay(n - 1)
    /\ Len(loop.delays) <= max_mqtt_retries
    /\ \A i \in 1..Len(loop.delays) :
          /\ loop.delays[i] = FirstDelays[i]
          /\ loop.delays[i] <= 120
          /\ i > 1 => loop.delays[i] >= loop.delays[i - 1]
    /\ (AtBoundary /\ Len(loop.delays) = max_mqtt_retries
          /\ loop.outcome \in {"failed", "ceiling"}) =>
              loop.outcome = "ceiling" /\ loop.retry = 0

\* Five consecutive reconnection attempts failed and the counter was reset.
C17_Witness ==
    /\ AtBoundary
    /\ loop.outcome = "ceiling"
    /\ loop.delays = FirstDelays
    /\ loop.retry = 0

\* C18: between two iterations of the main loop the retry counter is in
\* 0..max_mqtt_retries - 1: it is 0 after a reconnection that found the
\* service ready, after a healthy tick (also one found ready after the grace
\* sleep) and after the failure at the ceiling, and it is one more than
\* before after every other failed reconnection.
C18_RetryCounterBounds ==
    /\ loop.retry \in 0..max_mqtt_retries
    /\ AtBoundary =>
          /\ loop.retry \in 0..(max_mqtt_retries - 1)
          /\ loop.outcome \in {"already", "healthy", "grace", "ceiling"} =>
                 loop.retry = 0
          /\ loop.outcome = "ceiling" => loop.before + 1 = max_mqtt_retries
          /\ loop.outcome = "failed" =>
                 loop.retry = loop.before + 1 /\ loop.retry < max_mqtt_retries

\* The fourth consecutive reconnection attempt failed: the counter went from
\* 3 to 4, one below the ceiling.
C18_Witness ==
    /\ AtBoundary
    /\ loop.outcome = "failed"
    /\ loop.before = 3
    /\ loop.retry = 4
    /\ Len(loop.delays) = 4

\* Thread t is inside check_for_update_and_download (download_update
\* included, when called from it).
InCheck(t) ==
    /\ ~th[t].direct
    /\ \/ pc[t] \in {"cad", "dl_start", "dl_request", "dl_stream"}
       \/ pc[t] = "ps_lookup" /\ th[t].ps_site \in {"dl_enter", "dl_exit"}

\* C19: no step of check_for_update_and_download ends in an exception that
\* reaches its caller, whatever the version lookup, the metadata fetch and
\* the download do; the call returns, and what it returns is None or the
\* path of the bundle.
C19_CheckNeverRaises ==
    [][\A t \in Threads :
          InCheck(t) =>
              /\ pc'[t] # "raised"
              /\ pc'[t] = "cad_ret" =>
                     th'[t].ret \in {None, Filename(feed.version)}]_vars

\* C20: a fetch_available_update call returns a descriptor with the version
\* string of the feed entry, and its sha256 when the entry carries one, or
\* raises NetworkError: every transport failure and every parse failure
\* (no JSON, missing keys, no version) raises NetworkError.
C20_FetchCompleteOrNetworkError ==
    \A t \in Threads :
        (doc # NoDoc /\ AtRest(t) /\ pc[t] # "idle") =>
            /\ pc[t] = "raised" => th[t].exc = "NetworkError"
            /\ pc[t] = "done" =>
                   /\ doc.version # None
                   /\ th[t].info.version = doc.version
                   /\ th[t].info.sha256 = doc.sha256
            /\ (doc.kind \in FailureKinds \/ doc.version = None) => pc[t] = "raised"

\* (major, minor, patch) of a above that of b, compared field by field.
TripleGreater(a, b) ==
    \/ a[1] > b[1]
    \/ a[1] = b[1] /\ a[2] > b[2]
    \/ a[1] = b[1] /\ a[2] = b[2] /\ a[3] > b[3]

\* C21: is_newer(a, b) of two versions major.minor.patch is the numeric
\* comparison of the triples, field by field; of two strings that parse as
\* versions it is the version order (a pre-release below its release, a
\* post-release above it); when one of the strings is no version it is
\* (a != b and a > b) on the strings; is_newer(a, a) is false.
C21_IsNewerMatchesReference ==
    cmp.called =>
        /\ (cmp.parts_a # <<>> /\ cmp.parts_b # <<>>) =>
               cmp.result = TripleGreater(cmp.parts_a, cmp.parts_b)
        /\ (cmp.key_a # <<>> /\ cmp.key_b # <<>>) =>
               cmp.result = StrGreater(cmp.key_a, cmp.key_b)
        /\ (cmp.key_a = <<>> \/ cmp.key_b = <<>>) =>
               cmp.result = (cmp.ver_a # cmp.ver_b /\ StrGreater(cmp.ver_a, cmp.ver_b))
        /\ cmp.ver_a = cmp.ver_b => ~cmp.result

\* A version with a two-digit major field was found newer than "9.9.9",
\* which the string order denies.
C21_Witness ==
    /\ cmp.called
    /\ cmp.result
    /\ cmp.parts_a = <<MaxPart, 0, 0>>
    /\ cmp.parts_b = <<9, 9, 9>>

\* C22: no failure inside a cycle or of the transport ends the main loop:
\* main is never left by an exception.
C22_NoFailureEndsLoop == loop.pos # "aborted"

\* main has ended: the loop was left at its condition or by an exception.
MainEnded == loop.pos \in {"exited", "aborted"}

\* The positions of run_install.
InstallPositions == {"ri_start", "ri_set", "ri_call", "ri_installing"}

\* C23: the step that sets the stop flag is the signal handler's, which has
\* asked the service to stop (offline sent when the handler found the service
\* connected and active, the network loop of the client stopped by the time
\* the flag is set); once the flag is set it stays set, no new cycle
\* starts and main eventually ends; main does not end while the cycle's
\* thread is inside a call, and an install that was in flight when the signal
\* fired has returned from the installer by then.
C23_ShutdownStopsLoopAfterInstall ==
    /\ [][(loop.handler = "none" /\ loop'.handler # "none") =>
             /\ ~loop'.stop
             /\ (mqtt_service /\ connected /\ update_entity_active) =>
                    last_avail' = "offline"]_vars
    /\ [][(~loop.stop /\ loop'.stop) =>
             /\ loop.handler = "stopping"
             /\ loop'.handler = "done"
             /\ ~loop'.running]_vars
    /\ [][loop.stop => (loop'.stop /\ cycles' = cycles)]_vars
    /\ [](loop.pos = "exited" =>
             /\ pc[AutoThread] = "idle"
             /\ loop.signalled_at \in InstallPositions =>
                    (th[AutoThread].calls = 1 /\ th[AutoThread].success # "unset"))
    /\ (loop.stop ~> MainEnded)

\* The signal fired while the installer was running, and main has ended
\* after the install.
C23_Witness ==
    /\ loop.pos = "exited"
    /\ loop.signalled_at = "ri_installing"
    /\ th[AutoThread].success = "true"
    /\ install_calls = 1

\* C24: no call of a public method of the service ends in an exception of
\* the client's publish at its caller.
C24_PublishErrorsStayInside ==
    \A t \in Threads : th[t].method \in PublicMethods => pc[t] # "raised"

\* C25: no publish_state call ends in an exception at its caller, whatever
\* the service, the version lookup and the metadata fetch do.
C25_PublishStateNeverRaises ==
    \A t \in Threads : th[t].pubs # <<>> => th[t].exc = "none"

\* What the three topics hold after a clear that was honoured: the discovery
\* config, "online" and the retained initial state (or the cleared state
\* topic) when discovery was republished, else the three cleared topics.
AfterClear(republished) ==
    IF republished
    THEN /\ last_disc' = "config"
         /\ last_avail' = "online"
         /\ last_state' = IF initial_versions.set
                          THEN [payload |-> StatePayload(initial_versions.installed,
                                                         initial_versions.latest, FALSE),
                                retain |-> TRUE, sent |-> TRUE]
                          ELSE ClearedMessage
    ELSE /\ last_disc' = "empty"
         /\ last_avail' = "empty"
         /\ last_state' = ClearedMessage

\* C26 as stated: on the command topic the payload "install" makes one call
\* of the install callback, the payload "clear" clears the three topics and
\* republishes discovery, only while connected; every other payload and
\* every message of another topic makes no publish and no callback.
C26_LiteralCommandsOnly ==
    [][msg'.n # msg.n =>
          LET install == msg'.topic = COMMAND_TOPIC /\ msg'.payload = S_install
              clear == msg'.topic = COMMAND_TOPIC /\ msg'.payload = S_clear
          IN  /\ msg'.callbacks = IF install THEN 1 ELSE 0
              /\ (clear /\ connected) => AfterClear(TRUE)
              /\ ~(clear /\ connected) => UNCHANGED client_vars]_vars

\* C26, amended: the payload is compared after stripping the whitespace
\* around it, and a clear republishes discovery only while the update entity
\* is active.
C26_CommandsAfterStrip ==
    [][msg'.n # msg.n =>
          LET install == msg'.topic = COMMAND_TOPIC /\ Strip(msg'.payload) = S_install
              clear == msg'.topic = COMMAND_TOPIC /\ Strip(msg'.payload) = S_clear
          IN  /\ msg'.callbacks = IF install THEN 1 ELSE 0
              /\ (clear /\ connected) => AfterClear(update_entity_active)
              /\ ~(clear /\ connected) =>
                     UNCHANGED <<last_state, last_avail, last_disc>>
              /\ UNCHANGED <<connected, update_entity_active, initial_versions>>]_vars

\* A "clear" with a trailing newline was honoured on a connected service and
\* discovery was republished.
C26_Witness ==
    /\ msg.cleared
    /\ msg.payload = S_clear \o <<10>>
    /\ connected
    /\ update_entity_active
    /\ last_disc = "config"
    /\ last_avail = "online"

\* C27: an auto_cycle_once that starts while in_progress is set returns at
\* once: no fetch and no download request, no installer call, no file
\* written, nothing published, the cache and the flag as they were, and the
\* thread free again with nothing left to do.
C27_CycleSkippedWhileInProgress ==
    [][(cycles' # cycles /\ in_progress) =>
          /\ pc'[AutoThread] = "idle"
          /\ UNCHANGED <<latest_version, in_progress, store, net_requests, install_calls,
                         mqtt_vars, client_vars>>
          /\ th'[AutoThread] = [NewThread EXCEPT !.skipped = TRUE]]_vars
    /\ [](th[AutoThread].skipped =>
             /\ th[AutoThread].calls = 0
             /\ th[AutoThread].requests = 0
             /\ pc[AutoThread] = "idle")

\* A cycle was skipped while another thread was in the installer.
C27_Witness ==
    /\ th[AutoThread].skipped
    /\ cycles = 1
    /\ in_progress
    /\ \E t \in Workers : pc[t] = "ri_installing"

\* The positions of auto_cycle_once past its first line.
CyclePositions ==
    {"ac_fetch", "ac_lookup", "cad", "dl_start", "dl_request", "dl_stream", "cad_ret",
     "ps_lookup"}
    \cup InstallPositions

\* C28: a cycle that was not skipped ends in one of two ways: run_install
\* was called, with the bundle check_and_download produced and auto-update
\* enabled, or there was no installer call and publish_state was called
\* once; with auto-update disabled the cycle made no download request and
\* no installer call.
C28_InstallOrHeartbeat ==
    [][(pc[AutoThread] \in CyclePositions /\ pc'[AutoThread] \in {"idle", "raised"}) =>
          /\ \/ /\ th'[AutoThread].calls = 1
                /\ th'[AutoThread].ret # None
                /\ auto_update
             \/ /\ th'[AutoThread].calls = 0
                /\ Len(th'[AutoThread].pubs) = 1
                /\ pc'[AutoThread] = "idle"
          /\ ~auto_update =>
                 (th'[AutoThread].requests = 0 /\ th'[AutoThread].calls = 0)]_vars


\* The positions of download_update, and whether a thread at position p with
\* the locals r is inside download_update.
DlPositions == {"dl_start", "dl_request", "dl_stream"}
InDownloadUpdate(p, r) ==
    \/ p \in DlPositions
    \/ p = "ps_lookup" /\ r.ps_site \in {"dl_enter", "dl_exit"}

\* C29: a download_update made for an orchestrator has in_progress set when
\* its network request starts, and every such call that did not return an
\* existing file leaves in_progress cleared when it ends, whether it returns
\* or raises; the state messages it hands to the client carry the flag it set.
C29_NoLeakedInProgress ==
    [][\A t \in Threads :
         th[t].with_orch =>
           /\ (pc[t] = "dl_request" /\ net_requests' = net_requests + 1) => in_progress
           /\ (InDownloadUpdate(pc[t], th[t]) /\ ~InDownloadUpdate(pc'[t], th'[t])
                 /\ ~th'[t].early) =>
                  ~in_progress'
           /\ (InDownloadUpdate(pc[t], th[t]) /\ last_state' # last_state) =>
                  last_state'.payload.in_progress = in_progress']_vars


\* A result code that stands for a successful handshake.
SuccessCode(rc) == rc.value = 0

\* C30: connected turns true only in an on-connect callback with a success
\* code; an on-connect callback with any other code, readable as an integer
\* or not, leaves connected false and makes no subscribe call, no migration
\* and no publish of discovery, availability or state.
C30_ConnectedOnlyOnSuccess ==
    [][/\ (connected' /\ ~connected) =>
             (msg'.connects = msg.connects + 1 /\ SuccessCode(msg'.rc))
       /\ (msg'.connects = msg.connects + 1 /\ ~SuccessCode(msg'.rc)) =>
             /\ ~connected'
             /\ msg'.subs = msg.subs
             /\ marker' = marker
             /\ UNCHANGED client_vars
             /\ UNCHANGED <<update_entity_active, initial_versions>>]_vars

\* A callback with a reason-code object of a refused handshake arrived after a
\* successful connect: the service is not connected and the one subscribe
\* call is that of the earlier callback.
C30_Witness ==
    /\ msg.rc = [kind |-> "reason", value |-> 135]
    /\ msg.connects = 2
    /\ msg.subs = 1
    /\ ~connected
    /\ last_disc = "config"


\* The calls of ops that are not the migration's empty discovery payload.
RECURSIVE WithoutMigration(_)
WithoutMigration(ops) ==
    IF ops = <<>> THEN <<>>
    ELSE IF Head(ops).payload = "empty" THEN WithoutMigration(Tail(ops))
    ELSE <<Head(ops)>> \o WithoutMigration(Tail(ops))

\* C31: a successful connect callback with the update entity active hands the
\* client, in this order, the subscription to the command topic, the retained
\* discovery configuration, the retained "online" availability and, only when
\* an initial version pair is set, the retained initial state.
C31_ConnectOrder ==
    [][(cb = "connecting" /\ cb' = "idle" /\ SuccessCode(msg.rc) /\ update_entity_active) =>
          WithoutMigration(msg'.ops) =
              <<ClientOp("subscribe", COMMAND_TOPIC, "none", FALSE, 1),
                ClientOp("publish", UPDATE_DISC_TOPIC, "config", TRUE, 1),
                ClientOp("publish", UPDATE_AVAIL_TOPIC, "online", TRUE, 1)>>
              \o (IF initial_versions.set
                  THEN <<ClientOp("publish", STATE_TOPIC, "state", TRUE, 1)>> ELSE <<>>)]_vars

\* A successful connect with the entity active and initial versions set handed
\* the client four calls after the migration's, the state last.
C31_Witness ==
    /\ SuccessCode(msg.rc)
    /\ cb = "idle"
    /\ Len(msg.ops) = 5
    /\ msg.ops[5].topic = STATE_TOPIC
    /\ last_state.retain
    /\ connected


\* C32: over any sequence of successful connect callbacks the migration
\* publishes its empty retained discovery payload at most once and the marker
\* exists from then on; a callback that finds the marker publishes no such
\* payload.
C32_MigrationOnce ==
    /\ msg.migrations <= 1
    /\ msg.migrations = 1 => marker
    /\ \A i \in 1..Len(msg.ops) : msg.ops[i].payload = "empty" => msg.migrations = 1


\* The client's call that publishes the retained QoS-1 offline availability.
OfflinePublish == ClientOp("publish", UPDATE_AVAIL_TOPIC, "offline", TRUE, 1)

\* C33: a stop() on a connected service whose update entity is active hands
\* the client the retained QoS-1 "offline" availability first and the
\* disconnect after it; no disconnect comes before that publish.
C33_OfflineBeforeDisconnect ==
    /\ [][(~msg.stopping /\ msg'.stopping /\ connected /\ update_entity_active) =>
             msg'.stop_ops = <<OfflinePublish>>]_vars
    /\ [][(msg.stopping /\ ~msg'.stopping) =>
             /\ SubSeq(msg'.stop_ops, 1, Len(msg.stop_ops)) = msg.stop_ops
             /\ \A j \in 1..Len(msg.stop_ops) : msg.stop_ops[j].op # "disconnect"
             /\ \E j \in (Len(msg.stop_ops) + 1)..Len(msg'.stop_ops) :
                    msg'.stop_ops[j].op = "disconnect"]_vars

\* A stop() of a connected service with the entity active: the client got the
\* offline availability, then the disconnect.
C33_Witness ==
    /\ msg.stops = 1
    /\ ~msg.stopping
    /\ Len(msg.stop_ops) = 3
    /\ msg.stop_ops[1] = OfflinePublish
    /\ msg.stop_ops[2].op = "disconnect"
    /\ last_avail = "offline"


\* The step that ends the backoff sleep finds the current service ready.
ReadyAtBackoffEnd ==
    loop.pos = "backoff" /\ loop'.pos # "backoff" /\ mqtt_service /\ is_ready(Mq)

\* The reconnection attempt whose backoff ended with a ready service returns.
SkippedAttemptReturns ==
    loop.pos = "initialized" /\ loop.result = "skipped" /\ loop'.pos # "initialized"

\* C34 as stated: when the current service is ready at the end of the backoff
\* sleep, the attempt requests no MQTT parameters and creates no service,
\* the orchestrator keeps its service, and the attempt counter is reset to 0.
C34_ReadyAttemptResetsCounter ==
    [][/\ ReadyAtBackoffEnd =>
             /\ loop'.pos = "initialized"
             /\ loop'.result = "skipped"
             /\ UNCHANGED <<mqtt_service, mqtt_vars, latest_version>>
       /\ SkippedAttemptReturns =>
             /\ loop'.built = loop.built
             /\ mqtt_service'
             /\ UNCHANGED mqtt_vars
             /\ loop'.retry = 0]_vars

\* C34, amended: the counter is reset to 0 when the service is still ready at
\* the second readiness check of handle_mqtt_reconnection; when the service
\* lost its connection between the two checks the attempt counts as failed
\* (the incremented count, or 0 at the ceiling).
C34_ReadyAttemptKeepsService ==
    [][/\ ReadyAtBackoffEnd =>
             /\ loop'.pos = "initialized"
             /\ loop'.result = "skipped"
             /\ UNCHANGED <<mqtt_service, mqtt_vars, latest_version>>
             /\ loop'.built = loop.built
       /\ SkippedAttemptReturns =>
             /\ loop'.built = loop.built
             /\ mqtt_service'
             /\ UNCHANGED mqtt_vars
             /\ loop'.retry = IF connected THEN 0
                              ELSE IF loop.retry >= max_mqtt_retries THEN 0 ELSE loop.retry]_vars

\* An attempt whose backoff ended with a ready service has returned with the
\* service still ready: the counter is 0 and no service was created.
C34_Witness ==
    /\ loop.outcome = "already"
    /\ loop.result = "skipped"
    /\ loop.before > 0
    /\ loop.retry = 0
    /\ loop.built = 0
    /\ mqtt_service


\* C35: every auto_cycle_once of the main loop after the first starts after
\* the check-interval wait that ends the iteration before it. The continue
\* of the grace re-check (main.py lines 178-180) leaves loop.slept false, and
\* the cycle that follows it starts without the wait.
C35_WaitBetweenCycles ==
    [][(sched = "loop" /\ cycles' = cycles + 1 /\ cycles >= 1) => loop.slept]_vars


\* C36: a service that set_mqtt_service replaces is stopped, so at every
\* moment at most one transport is started and not stopped.
C36_OneLiveTransport == loop.live <= 1


\* Thread t has a download request or transfer under way.
Downloading(t) == pc[t] \in {"dl_request", "dl_stream"}

\* Thread t is between the start and the end of the installer's run.
Installing(t) == pc[t] \in {"ri_call", "ri_installing"}

C39_NoIdleStateDuringInstall ==
    [][(InInstall /\ InInstall' /\ last_state' # last_state) =>
          last_state'.payload.in_progress]_vars


\* An installer call has been made and, the installer not failing in this
\* run, it succeeded or is about to.
InstallSucceeded == install_calls >= 1 /\ "installer" \notin faults

\* C40: in the main loop, once an install has succeeded no later
\* auto_cycle_once calls the installer again.
C40_NoReinstallAfterSuccess ==
    [][(sched = "loop" /\ install_calls' = install_calls + 1) => ~InstallSucceeded]_vars

=============================================================================
